---- MODULE Spec2Model ----
(***************************************************************************)
(* Two Cars clone: the game loop of src/main.cpp (revised release, the     *)
(* second translation unit of the file, lines 745-1541).                   *)
(*                                                                         *)
(* One loop iteration of main() is two steps: HandleEvents (frameStart is   *)
(* read from the clock, one frame time after the frame before, one event   *)
(* is polled and dispatched) and Update (Game::update with every function  *)
(* it calls).  Every frame takes its time, whether or not it reads the     *)
(* clock again.  render() draws and changes no game field.  The menu text  *)
(* bob of updateMenuAnimation touches only the presentation rectangles     *)
(* and is not part of the state.                                           *)
(***************************************************************************)
EXTENDS Integers, Sequences, FiniteSets, TLC

\* ------------------------------------------------------------------ bounds
\* number of spawn pairs produced in one run of the program
MaxSpawns == 1
\* number of lane-toggle key presses (a / d) in one run of the program
MaxPresses == 1
\* number of transitions into NORMAL_MODE in one run of the program
MaxSessions == 2
\* number of escape key presses that end a session in one run of the program
MaxEscapes == 1
\* number of frames in MAIN_MENU or DEATH_SCREEN whose event changes nothing,
\* in one run of the program
MaxIdle == 1
\* clock advance (ms) from one frame to the next.  The loop paces itself to
\* 16 ms at best and never catches up, so a frame can last any longer time;
\* with stalled frames of 30 s every frame falls on a difficulty interval and
\* the first spawned pair reaches the cars before the next pair is due.
StalledFrames == {30000}
\* clock advance (ms) between two SDL_GetTicks calls of one frame: none, or a
\* stall of 8 ms, which takes the clock from 192 ms to 200 ms after a key
\* press that fell on a frame start
ReadLags == {0, 8}
\* the reads of the frames in which the clock stands still
SteadyReads == {0}

\* number of lane-toggle key presses in one run of SpecDrive
MaxDrivePresses == 2
\* number of updates of the session of SpecDrive: the spawn countdown left over
\* by the session before it
DriveHorizon == 30

\* number of producing spawnObstacle calls in one run of SpecCadence
MaxCadenceSpawns == 2

\* number of events waiting in the event queue when a run of SpecQueue starts
MaxQueued == 3

\* the 16-bit halves 0 .. MaxSmallHalf are among the halves of the highscore
\* values of SpecCodec
MaxSmallHalf == 5

\* --------------------------------------------------------------- constants
SCREEN_WIDTH == 405
SCREEN_HEIGHT == 720
CAR_WIDTH == SCREEN_WIDTH \div 10
CAR_HEIGHT == SCREEN_HEIGHT \div 11
LANE_WIDTH == SCREEN_WIDTH \div 4
LANE_1 == (LANE_WIDTH \div 2) - (CAR_WIDTH \div 2)
LANE_2 == LANE_WIDTH + (LANE_WIDTH \div 2) - (CAR_WIDTH \div 2)
LANE_3 == 2 * LANE_WIDTH + (LANE_WIDTH \div 2) - (CAR_WIDTH \div 2)
LANE_4 == 3 * LANE_WIDTH + (LANE_WIDTH \div 2) - (CAR_WIDTH \div 2)
OBSTACLE_SIZE == SCREEN_WIDTH \div 10
CAR_Y == SCREEN_HEIGHT - 100
rotationDuration == 200
moveDuration == 200
InitialSpawnRate == 80
InitialObstacleSpeed == 6
XorKeyHalf == 42405

\* main(): the loop sleeps up to frameDelay; a frame that overruns is not
\* caught up
FPS == 60
frameDelay == 1000 \div FPS
NominalFrames == {frameDelay}

restartButtonRect == [x |-> (SCREEN_WIDTH \div 2) - 50, y |-> (SCREEN_HEIGHT \div 2) - 20, w |-> 100, h |-> 40]
homeButtonRect == [x |-> (SCREEN_WIDTH \div 2) - 50, y |-> (SCREEN_HEIGHT \div 2) + 30, w |-> 100, h |-> 40]

GameState == {"MAIN_MENU", "NORMAL_MODE", "DEATH_SCREEN"}

\* the four texture fields of Game an obstacle's texture is copied from;
\* "garbage" is the value of an Entity::texture that was never assigned and
\* is equal to none of the four
Textures == {"redBox", "redCircle", "blueBox", "blueCircle"}
TextureValues == Textures \cup {"garbage"}

\* loadAssets: the texture fields whose image became a texture.  No result is
\* checked and each image is loaded on its own, so any of them can be missing
LoadOutcomes == SUBSET Textures

\* what a field holds that nothing has assigned: for a GameState an enumerator
\* or a value that is none, for a 32-bit word whatever the allocator left
\* there.  A word is written as the int it is: the Uint32 startTime with all
\* bits set reads -1.
UnassignedStates == GameState \cup {"none"}
UnassignedWords == (-2147483647 - 1) .. 2147483647

\* words the allocator is seen to leave: all bits clear, and the heap filled
\* with the byte 0xAA, 0x02 or 0xFE
LeftoverWords == {0, -1431655766, 33686018, -16843010}

\* the car over a rectangle that nothing has assigned
UnassignedCars(words) ==
    [x : words, targetX : {0}, moving : {FALSE}, moveStartTime : {0},
     rotating : {FALSE}, rotationStartTime : {0}, angle : {0}]

\* pc               where main() stands: "handleEvents", "update", "clean", "exit"
\* frameStart       the local of main(): the clock at the start of the frame
\* now              the value the last SDL_GetTicks call returned
\* loaded           the texture fields that hold a texture; the others are NULL
\* isRunning .. highscore   the fields of Game with the same names
\* patternTimer     the static of spawnObstacle
\* lastIncreaseTime the static of increaseDifficulty
\* playerDat        the file player.dat
\* highscoreTxt     the file highscore.txt, which only the original release
\*                  opens
\* saveInvoked      saveHighscore was called in the current frame
\* fileOpened       that call found player.dat open for writing
\* pickups          circlePickupSound plays (score++) of the current frame
\* spawns, presses, sessions, escapes, idle   counters for the bounds above
\* queue            the events waiting in SDL's event queue, oldest first
VARIABLES pc, now, isRunning, currentState, obstacles, blueCar, redCar,
          startTime, score, spawnRate, obstacleSpeed, highscore,
          patternTimer, lastIncreaseTime, playerDat, saveInvoked, fileOpened,
          pickups, spawns, presses, sessions, escapes, queue,
          frameStart, loaded, idle, highscoreTxt

vars == <<pc, now, isRunning, currentState, obstacles, blueCar, redCar,
          startTime, score, spawnRate, obstacleSpeed, highscore,
          patternTimer, lastIncreaseTime, playerDat, saveInvoked, fileOpened,
          pickups, spawns, presses, sessions, escapes, queue,
          frameStart, loaded, idle, highscoreTxt>>

\* ------------------------------------------------------- 32-bit arithmetic
\* a 32-bit int is handled as two 16-bit halves: 0xA5A5A5A5 is XorKeyHalf
\* (0xA5A5) twice, and every intermediate value fits a 32-bit integer
RECURSIVE XorBits(_, _, _)
XorBits(a, b, n) ==
    IF n = 0 THEN 0
    ELSE (((a % 2) + (b % 2)) % 2) + 2 * XorBits(a \div 2, b \div 2, n - 1)

HighHalf(i) == (i \div 65536) % 65536
LowHalf(i) == i % 65536
ToSigned16(u) == IF u >= 32768 THEN u - 65536 ELSE u

\* int ^ 0xA5A5A5A5 stored back into an int
Xor32(i) ==
    ToSigned16(XorBits(HighHalf(i), XorKeyHalf, 16)) * 65536
        + XorBits(LowHalf(i), XorKeyHalf, 16)

\* ------------------------------------------------------------- persistence
\* player.dat: absent, or one encoded 4-byte int
NoFile == [exists |-> FALSE, data |-> 0]

\* variant of loadHighscore that decodes the four bytes of its buffer even
\* when player.dat could not be opened
loadHighscoreAlways(file, h) == Xor32(file.data)

\* variant of loadHighscore that takes the stored int as the highscore
loadHighscoreNoDecode(file, h) == IF file.exists THEN file.data ELSE h

\* loadHighscore: the highscore field after the call
loadHighscore(file, h) == IF file.exists THEN Xor32(file.data) ELSE h

\* variant of saveHighscore that writes the highscore without the XOR
saveHighscorePlain(file, h, ok) ==
    IF ok THEN [exists |-> TRUE, data |-> h] ELSE file

\* saveHighscore: player.dat after the call.  ok is file.is_open(): when the
\* file cannot be opened for writing nothing is written and nothing reported
saveHighscore(file, h, ok) ==
    IF ok THEN [exists |-> TRUE, data |-> Xor32(h)] ELSE file

\* highscore.txt of the original release: absent, or the characters of its
\* text
NoText == [exists |-> FALSE, text |-> <<>>]

DigitChars == <<"0", "1", "2", "3", "4", "5", "6", "7", "8", "9">>
DigitChar(n) == DigitChars[n + 1]
IsDigit(c) == \E n \in 0 .. 9 : DigitChars[n + 1] = c
DigitValue(c) == CHOOSE n \in 0 .. 9 : DigitChars[n + 1] = c

\* the decimal digits of a 32-bit int that is not positive, without the sign
RECURSIVE FormatNeg(_)
FormatNeg(i) ==
    LET r == (10 - (i % 10)) % 10
        q == (i + r) \div 10
    IN IF q = 0 THEN <<DigitChar(r)>> ELSE FormatNeg(q) \o <<DigitChar(r)>>

\* the decimal digits of a 32-bit int that is not negative
RECURSIVE FormatNat(_)
FormatNat(n) ==
    IF n < 10 THEN <<DigitChar(n)>>
    ELSE FormatNat(n \div 10) \o <<DigitChar(n % 10)>>

\* file << highscore: the characters operator<< writes for an int
FormatInt(i) == IF i >= 0 THEN FormatNat(i) ELSE <<"-">> \o FormatNeg(i)

\* the smallest int a for which a * 10 - n is an int
LeastTenth(n) ==
    LET least == (-2147483647 - 1) + n
    IN (least \div 10) + (IF least % 10 = 0 THEN 0 ELSE 1)

\* the value of the leading digits of text appended to the number acc, which
\* is kept below zero for a negative number; a value that does not fit an int
\* is stored as the nearest int
RECURSIVE ParseDigits(_, _, _)
ParseDigits(text, acc, negative) ==
    IF text = <<>> \/ ~IsDigit(Head(text)) THEN acc
    ELSE LET n == DigitValue(Head(text))
         IN IF negative
            THEN IF acc < LeastTenth(n) THEN -2147483647 - 1
                 ELSE ParseDigits(Tail(text), acc * 10 - n, negative)
            ELSE IF acc > (2147483647 - n) \div 10 THEN 2147483647
                 ELSE ParseDigits(Tail(text), acc * 10 + n, negative)

\* the characters operator>> skips before a number: space, tab, newline,
\* carriage return, form feed and vertical tab
WhiteSpace == {" ", "\t", "\n", "\r", "\f", ""}

\* text without its leading white space
RECURSIVE SkipWhiteSpace(_)
SkipWhiteSpace(text) ==
    IF text # <<>> /\ Head(text) \in WhiteSpace THEN SkipWhiteSpace(Tail(text))
    ELSE text

\* file >> highscore: the int in h after the extraction.  Leading white space
\* is skipped; when the text ends there nothing is stored, and when what
\* follows is not a number 0 is stored.
ParseInt(text, h) ==
    LET rest == SkipWhiteSpace(text)
    IN IF rest = <<>> THEN h
       ELSE IF Head(rest) = "-" THEN ParseDigits(Tail(rest), 0, TRUE)
       ELSE IF Head(rest) = "+" THEN ParseDigits(Tail(rest), 0, FALSE)
       ELSE ParseDigits(rest, 0, FALSE)

\* loadHighscore of the original release: the highscore field after the call
loadHighscoreOriginal(file, h) ==
    IF file.exists THEN ParseInt(file.text, h) ELSE h

\* saveHighscore of the original release: highscore.txt after the call, which
\* leaves player.dat alone.  ok is file.is_open().
saveHighscoreOriginal(file, h, ok) ==
    IF ok THEN [exists |-> TRUE, text |-> FormatInt(h)] ELSE file

\* ---------------------------------------------------------------- geometry
CarRect(car) == [x |-> car.x, y |-> CAR_Y, w |-> CAR_WIDTH, h |-> CAR_HEIGHT]
EntityRect(o) == [x |-> o.x, y |-> o.y, w |-> OBSTACLE_SIZE, h |-> OBSTACLE_SIZE]

Max(a, b) == IF a > b THEN a ELSE b
Min(a, b) == IF a < b THEN a ELSE b

\* SDL_HasIntersection: non-empty rectangles whose open interiors overlap
SDL_HasIntersection(A, B) ==
    /\ A.w > 0 /\ A.h > 0 /\ B.w > 0 /\ B.h > 0
    /\ Max(A.x, B.x) < Min(A.x + A.w, B.x + B.w)
    /\ Max(A.y, B.y) < Min(A.y + A.h, B.y + B.h)

PointInButton(p, r) ==
    /\ p.x >= r.x /\ p.x <= r.x + r.w
    /\ p.y >= r.y /\ p.y <= r.y + r.h

\* -------------------------------------------------------------------- cars
\* targetX, moveStartTime and rotationStartTime are unassigned until the first
\* key press and are read only while moving / rotating is set; the model
\* holds 0 in them whenever the flag is clear.
NewCar(x) == [x |-> x, targetX |-> 0, moving |-> FALSE, moveStartTime |-> 0,
              rotating |-> FALSE, rotationStartTime |-> 0, angle |-> 0]

\* 1000 * 15 * sin((M_PI / 200) * e) for e = 0, 1, ..., 199, rounded to the
\* nearest integer (angle is a double; the model keeps thousandths)
AngleTable ==
    <<0, 236, 471, 707, 942, 1177, 1412, 1646, 1880, 2114,
      2347, 2579, 2811, 3042, 3272, 3502, 3730, 3958, 4185, 4411,
      4635, 4859, 5081, 5302, 5522, 5740, 5957, 6173, 6387, 6599,
      6810, 7019, 7226, 7432, 7636, 7837, 8037, 8235, 8431, 8625,
      8817, 9006, 9194, 9379, 9561, 9742, 9920, 10095, 10268, 10439,
      10607, 10772, 10935, 11094, 11252, 11406, 11558, 11706, 11852, 11995,
      12135, 12272, 12406, 12537, 12665, 12790, 12911, 13029, 13145, 13256,
      13365, 13470, 13572, 13671, 13766, 13858, 13947, 14032, 14113, 14191,
      14266, 14337, 14404, 14468, 14529, 14586, 14639, 14688, 14734, 14777,
      14815, 14850, 14882, 14909, 14933, 14954, 14970, 14983, 14993, 14998,
      15000, 14998, 14993, 14983, 14970, 14954, 14933, 14909, 14882, 14850,
      14815, 14777, 14734, 14688, 14639, 14586, 14529, 14468, 14404, 14337,
      14266, 14191, 14113, 14032, 13947, 13858, 13766, 13671, 13572, 13470,
      13365, 13256, 13145, 13029, 12911, 12790, 12665, 12537, 12406, 12272,
      12135, 11995, 11852, 11706, 11558, 11406, 11252, 11094, 10935, 10772,
      10607, 10439, 10268, 10095, 9920, 9742, 9561, 9379, 9194, 9006,
      8817, 8625, 8431, 8235, 8037, 7837, 7636, 7432, 7226, 7019,
      6810, 6599, 6387, 6173, 5957, 5740, 5522, 5302, 5081, 4859,
      4635, 4411, 4185, 3958, 3730, 3502, 3272, 3042, 2811, 2579,
      2347, 2114, 1880, 1646, 1412, 1177, 942, 707, 471, 236>>

RotationAngle(e) == AngleTable[e + 1]

updateRotation(car, t) ==
    IF car.rotating
    THEN LET elapsedTime == t - car.rotationStartTime
         IN IF elapsedTime < rotationDuration
            THEN [car EXCEPT !.angle = RotationAngle(elapsedTime)]
            ELSE [car EXCEPT !.angle = 0, !.rotating = FALSE, !.rotationStartTime = 0]
    ELSE car

\* destRect.x + t * (targetX - destRect.x) in double, truncated to int.  The
\* quotient is exact except where the double product rounds below the
\* integer: x = 105 towards 30 at 112 ms and 136 ms.
Lerp(x, targetX, e) ==
    IF x = 105 /\ targetX = 30 /\ e = 112 THEN 62
    ELSE IF x = 105 /\ targetX = 30 /\ e = 136 THEN 53
    ELSE (moveDuration * x + e * (targetX - x)) \div moveDuration

\* variant of updateMovement that clears the flag on the way
updateMovementStopsShort(car, t) ==
    IF car.moving
    THEN LET elapsedTime == t - car.moveStartTime
         IN IF elapsedTime < moveDuration
            THEN [car EXCEPT !.x = Lerp(car.x, car.targetX, elapsedTime),
                             !.moving = elapsedTime = 0]
            ELSE [car EXCEPT !.x = car.targetX, !.moving = FALSE,
                             !.targetX = 0, !.moveStartTime = 0]
    ELSE car

updateMovement(car, t) ==
    IF car.moving
    THEN LET elapsedTime == t - car.moveStartTime
         IN IF elapsedTime < moveDuration
            THEN [car EXCEPT !.x = Lerp(car.x, car.targetX, elapsedTime)]
            ELSE [car EXCEPT !.x = car.targetX, !.moving = FALSE,
                             !.targetX = 0, !.moveStartTime = 0]
    ELSE car

\* Game::update, one car: updateRotation and updateMovement read the clock
\* one after the other, tRot <= tMove
UpdateCar(car, tRot, tMove) == updateMovement(updateRotation(car, tRot), tMove)

\* variant of ToggleLane that always heads for the far lane
ToggleLaneOutward(car, home, other, tMove, tRot) ==
    [car EXCEPT !.targetX = other,
                !.moving = TRUE, !.moveStartTime = tMove,
                !.rotating = TRUE, !.rotationStartTime = tRot]

\* a / d key: pick the target lane from the current x, start both animations.
\* The clock is read twice, for moveStartTime first: tMove <= tRot
ToggleLane(car, home, other, tMove, tRot) ==
    [car EXCEPT !.targetX = IF car.x = home THEN other ELSE home,
                !.moving = TRUE, !.moveStartTime = tMove,
                !.rotating = TRUE, !.rotationStartTime = tRot]

resetCarX(car, x) == [car EXCEPT !.x = x]

\* --------------------------------------------------------------- obstacles
\* the pointer a texture value stands for: an unloaded field holds NULL
Handle(tex) ==
    IF tex \in loaded THEN tex
    ELSE IF tex \in Textures THEN "NULL"
    ELSE tex

\* the comparison of an entity's texture with a texture field of Game
SameTexture(tex, field) == Handle(tex) = Handle(field)

IsBox(tex) == SameTexture(tex, "redBox") \/ SameTexture(tex, "blueBox")
IsCircle(tex) == SameTexture(tex, "redCircle") \/ SameTexture(tex, "blueCircle")

NewEntity(tex, x, y) == [texture |-> tex, x |-> x, y |-> y, collected |-> FALSE]

\* variant of LaneX that sends both lanes of a side to the same column
LaneXOneColumn(lane) == IF lane = 0 \/ lane = 1 THEN LANE_3 ELSE LANE_1

\* lanes[i] -> destRect.x : 0, 1 are the red side, 2, 3 the blue side
LaneX(lane) ==
    IF lane = 0 THEN LANE_3
    ELSE IF lane = 1 THEN LANE_4
    ELSE IF lane = 2 THEN LANE_1
    ELSE LANE_2

NoFlags == [redBox |-> FALSE, blueBox |-> FALSE, redCircle |-> FALSE, blueCircle |-> FALSE]

\* the texture one loop iteration of spawnObstacle assigns: coin is rand() % 2,
\* g is what the never-assigned texture field holds when neither branch runs
SpawnTexture(lane, flags, coin, g) ==
    IF lane = 0 \/ lane = 1
    THEN IF ~flags.redBox /\ coin = 0 THEN "redBox"
         ELSE IF ~flags.redCircle THEN "redCircle"
         ELSE g
    ELSE IF ~flags.blueBox /\ coin = 0 THEN "blueBox"
         ELSE IF ~flags.blueCircle THEN "blueCircle"
         ELSE g

SpawnFlags(lane, flags, coin) ==
    IF lane = 0 \/ lane = 1
    THEN IF ~flags.redBox /\ coin = 0 THEN [flags EXCEPT !.redBox = TRUE]
         ELSE IF ~flags.redCircle THEN [flags EXCEPT !.redCircle = TRUE]
         ELSE flags
    ELSE IF ~flags.blueBox /\ coin = 0 THEN [flags EXCEPT !.blueBox = TRUE]
         ELSE IF ~flags.blueCircle THEN [flags EXCEPT !.blueCircle = TRUE]
         ELSE flags

\* destRect.y of a new entity: above the screen, pushed further up when the
\* last entity of the list is closer than CAR_HEIGHT + 10
SpawnY(tex, obs) ==
    IF (IsBox(tex) \/ IsCircle(tex)) /\ obs # <<>>
       /\ obs[Len(obs)].y < CAR_HEIGHT + 10
    THEN obs[Len(obs)].y - (CAR_HEIGHT + 10)
    ELSE -OBSTACLE_SIZE

SpawnOne(obs, lane, flags, coin, g) ==
    LET tex == SpawnTexture(lane, flags, coin, g)
    IN Append(obs, NewEntity(tex, LaneX(lane), SpawnY(tex, obs)))

\* the two entities of one producing call; rnd = [l0, l1, c0, c1, g]
SpawnPair(obs, rnd) ==
    LET obs1 == SpawnOne(obs, rnd.l0, NoFlags, rnd.c0, rnd.g)
        flags1 == SpawnFlags(rnd.l0, NoFlags, rnd.c0)
    IN SpawnOne(obs1, rnd.l1, flags1, rnd.c1, rnd.g)

\* variant of spawnObstacle that restarts the countdown from the initial rate
spawnObstacleFromInitialRate(obs, timer, rate, rnd) ==
    IF timer = 0
    THEN [obstacles |-> SpawnPair(obs, rnd), patternTimer |-> InitialSpawnRate]
    ELSE [obstacles |-> obs, patternTimer |-> timer - 1]

\* spawnObstacle: [obstacles, patternTimer] after the call
spawnObstacle(obs, timer, rate, rnd) ==
    IF timer = 0
    THEN [obstacles |-> SpawnPair(obs, rnd), patternTimer |-> rate]
    ELSE [obstacles |-> obs, patternTimer |-> timer - 1]

\* the first two values of the shuffled lanes, the two coin flips and the
\* content of an unassigned texture field
SpawnInputs ==
    {rnd \in [l0 : 0..3, l1 : 0..3, c0 : 0..1, c1 : 0..1, g : TextureValues] :
        rnd.l0 # rnd.l1}

NoSpawnInput == [l0 |-> 0, l1 |-> 1, c0 |-> 0, c1 |-> 0, g |-> "garbage"]

\* updateObstacles: every entity falls by speed, entities below the screen
\* are erased, an erased uncollected circle ends the game
Advance(obs, speed) == [i \in 1..Len(obs) |-> [obs[i] EXCEPT !.y = @ + speed]]

OffScreen(o) == o.y > SCREEN_HEIGHT

Missed(o) == OffScreen(o) /\ IsCircle(o.texture) /\ ~o.collected

updateObstacles(obs, speed, state) ==
    LET moved == Advance(obs, speed)
        Stays(o) == ~OffScreen(o)
    IN [obstacles |-> SelectSeq(moved, Stays),
        currentState |-> IF \E i \in 1..Len(moved) : Missed(moved[i])
                         THEN "DEATH_SCREEN" ELSE state]

\* checkCollision, per entity
RedHit(o, red) == SDL_HasIntersection(CarRect(red), EntityRect(o))
BlueHit(o, blue) == SDL_HasIntersection(CarRect(blue), EntityRect(o))

\* variant of Lethal that tests the red car only
LethalRedOnly(o, red, blue) == RedHit(o, red) /\ SameTexture(o.texture, "redBox")

Lethal(o, red, blue) ==
    \/ RedHit(o, red) /\ SameTexture(o.texture, "redBox")
    \/ BlueHit(o, blue) /\ SameTexture(o.texture, "blueBox")

\* the circle test is the else branch of the box test
Picked(o, red, blue) ==
    \/ /\ RedHit(o, red)
       /\ ~SameTexture(o.texture, "redBox")
       /\ SameTexture(o.texture, "redCircle") /\ ~o.collected
    \/ /\ BlueHit(o, blue)
       /\ ~SameTexture(o.texture, "blueBox")
       /\ SameTexture(o.texture, "blueCircle") /\ ~o.collected

\* variant of checkCollision that leaves the loop at the first lethal box and
\* so counts only the circles listed before it
checkCollisionBreak(obs, red, blue, sc, state) ==
    LET Dead(i) == \E j \in 1..(i - 1) : Lethal(obs[j], red, blue)
        Taken(i) == Picked(obs[i], red, blue) /\ ~Dead(i) /\ ~Lethal(obs[i], red, blue)
        marked == [i \in 1..Len(obs) |->
                     IF Taken(i) THEN [obs[i] EXCEPT !.collected = TRUE] ELSE obs[i]]
        NotCollected(o) == ~o.collected
    IN [obstacles |-> SelectSeq(marked, NotCollected),
        score |-> sc + Cardinality({i \in 1..Len(obs) : Taken(i)}),
        currentState |-> IF \E i \in 1..Len(obs) : Lethal(obs[i], red, blue)
                         THEN "DEATH_SCREEN" ELSE state]

\* variant of checkCollision whose score++ is a score--
checkCollisionMinus(obs, red, blue, sc, state) ==
    LET marked == [i \in 1..Len(obs) |->
                     IF Picked(obs[i], red, blue)
                     THEN [obs[i] EXCEPT !.collected = TRUE] ELSE obs[i]]
        NotCollected(o) == ~o.collected
    IN [obstacles |-> SelectSeq(marked, NotCollected),
        score |-> sc - Cardinality({i \in 1..Len(obs) : Picked(obs[i], red, blue)}),
        currentState |-> IF \E i \in 1..Len(obs) : Lethal(obs[i], red, blue)
                         THEN "DEATH_SCREEN" ELSE state]

\* checkCollision up to the erase of collected entities:
\* [obstacles, score, currentState]
checkCollision(obs, red, blue, sc, state) ==
    LET marked == [i \in 1..Len(obs) |->
                     IF Picked(obs[i], red, blue)
                     THEN [obs[i] EXCEPT !.collected = TRUE] ELSE obs[i]]
        NotCollected(o) == ~o.collected
    IN [obstacles |-> SelectSeq(marked, NotCollected),
        score |-> sc + Cardinality({i \in 1..Len(obs) : Picked(obs[i], red, blue)}),
        currentState |-> IF \E i \in 1..Len(obs) : Lethal(obs[i], red, blue)
                         THEN "DEATH_SCREEN" ELSE state]

\* variant of NewHighscore with the comparison turned round
NewHighscoreBelow(state, sc, hs) == state = "DEATH_SCREEN" /\ sc < hs

\* the tail of checkCollision: a new record is stored at once
NewHighscore(state, sc, hs) == state = "DEATH_SCREEN" /\ sc > hs

\* -------------------------------------------------------------- difficulty
\* variant of DifficultyDue without the test on the time of the last adjustment
DifficultyDueUnspaced(t, start, last) == ((t - start) \div 1000) % 30 = 0

\* the condition of increaseDifficulty: elapsed seconds on a multiple of 30
\* and 1000 ms or more since the last adjustment
DifficultyDue(t, start, last) ==
    ((t - start) \div 1000) % 30 = 0 /\ t - last >= 1000

\* variant of NextSpawnRate whose floor test is against 0
NextSpawnRateToZero(rate) == IF rate > 0 THEN rate - 20 ELSE rate

\* variant of NextSpawnRate that starts over once the floor is reached
NextSpawnRateWrap(rate) == IF rate > 20 THEN rate - 20 ELSE InitialSpawnRate

NextSpawnRate(rate) == IF rate > 20 THEN rate - 20 ELSE rate
NextObstacleSpeed(speed) == IF speed < 15 THEN speed + 2 ELSE speed

\* ------------------------------------------------------------------ events
\* what the switch of handleEvents can read: at most one event per frame.
\* "NONE" stands for every event type the switch ignores.
Keys == {"ESCAPE", "a", "d", "r", "h", "x"}

\* pointer positions: corners of the two buttons, the gap between them and a
\* point far from both
MousePoints ==
    {[x |-> 152, y |-> 340], [x |-> 252, y |-> 380], [x |-> 200, y |-> 385],
     [x |-> 152, y |-> 390], [x |-> 252, y |-> 430], [x |-> 10, y |-> 10]}

NoPoint == [x |-> 0, y |-> 0]

Events ==
    {[type |-> "QUIT", sym |-> "x", mouse |-> NoPoint],
     [type |-> "NONE", sym |-> "x", mouse |-> NoPoint]}
    \cup {[type |-> "KEYDOWN", sym |-> k, mouse |-> NoPoint] : k \in Keys}
    \cup {[type |-> "MOUSEBUTTONDOWN", sym |-> "x", mouse |-> p] : p \in MousePoints}

\* the event the switch reads after the one SDL_PollEvent call: the oldest
\* queued event, or, with an empty queue, an SDL_Event that nothing has
\* written to
Polled == IF queue = <<>> THEN Events ELSE {Head(queue)}

\* -------------------------------------------------------------------- Init
\* player.dat before the program starts: absent, or written by an earlier run
InitialFiles == {NoFile, saveHighscore(NoFile, 1, TRUE)}

\* the state when Game::init returns, over one of the given player.dat files
\* and with one of the given outcomes of loadAssets.  isRunning is FALSE when
\* SDL or the font subsystem failed: the loop is skipped, neither loadAssets
\* nor loadHighscore was called, and currentState, startTime and the
\* rectangles of the cars (Game() assigns nothing) were never assigned.
\* words are the contents of the unassigned words; entered, left, pressed and
\* idled are the sessions, escapes, lane key presses and idle frames counted
\* as spent.
Launch(files, outcomes, words, entered, left, pressed, idled) ==
    /\ playerDat \in files
    /\ highscoreTxt = NoText
    /\ isRunning \in BOOLEAN
    /\ currentState \in IF isRunning THEN {"MAIN_MENU"} ELSE UnassignedStates
    /\ loaded \in IF isRunning THEN outcomes ELSE {{}}
    /\ highscore = IF isRunning THEN loadHighscore(playerDat, 0) ELSE 0
    /\ pc = IF isRunning THEN "handleEvents" ELSE "clean"
    /\ now = 0
    /\ frameStart = 0
    /\ startTime \in IF isRunning THEN {now} ELSE words
    /\ obstacles = <<>>
    /\ blueCar \in IF isRunning THEN {NewCar(LANE_1)} ELSE UnassignedCars(words)
    /\ redCar \in IF isRunning THEN {NewCar(LANE_4)} ELSE UnassignedCars(words)
    /\ score = 0
    /\ spawnRate = InitialSpawnRate
    /\ obstacleSpeed = InitialObstacleSpeed
    /\ patternTimer = 0
    /\ lastIncreaseTime = 0
    /\ saveInvoked = FALSE
    /\ fileOpened = FALSE
    /\ pickups = 0
    /\ spawns = 0
    /\ presses = pressed
    /\ sessions = entered
    /\ escapes = left
    /\ idle = idled
    /\ queue = <<>>

Init == Launch(InitialFiles, LoadOutcomes, UnassignedWords, 0, 0, 0, 0)

\* ------------------------------------------------------------ handleEvents
\* variant of Frame that polls until the event queue is empty
FrameDrain(d, lag) ==
    /\ pc = "handleEvents"
    /\ queue' = <<>>
    /\ frameStart' = Max(frameStart + d, now)
    /\ now' = frameStart' + lag
    /\ pc' = "update"
    /\ saveInvoked' = FALSE
    /\ fileOpened' = FALSE
    /\ pickups' = 0
    /\ UNCHANGED <<highscore, playerDat, patternTimer, lastIncreaseTime, spawns,
                   loaded, highscoreTxt>>

\* every handleEvents step: main reads frameStart, d ms after the frame
\* before or, when that frame took longer than d and main did not sleep, at
\* the clock value the frame ended on.  The one SDL_PollEvent call takes the
\* oldest queued event, if there is one.  lag is the time from there to the
\* last SDL_GetTicks call of the handler (0 for a handler that makes none).
Frame(d, lag) ==
    /\ pc = "handleEvents"
    /\ queue' = IF queue = <<>> THEN queue ELSE Tail(queue)
    /\ frameStart' = Max(frameStart + d, now)
    /\ now' = frameStart' + lag
    /\ pc' = "update"
    /\ saveInvoked' = FALSE
    /\ fileOpened' = FALSE
    /\ pickups' = 0
    /\ UNCHANGED <<highscore, playerDat, patternTimer, lastIncreaseTime, spawns,
                   loaded, highscoreTxt>>

\* variant of resetCars that leaves the blue car where it is
resetCarsRedOnly ==
    /\ blueCar' = blueCar
    /\ redCar' = resetCarX(redCar, LANE_4)
    /\ score' = 0
    /\ obstacles' = <<>>
    /\ spawnRate' = InitialSpawnRate
    /\ obstacleSpeed' = InitialObstacleSpeed

\* resetCars
resetCars ==
    /\ blueCar' = resetCarX(blueCar, LANE_1)
    /\ redCar' = resetCarX(redCar, LANE_4)
    /\ score' = 0
    /\ obstacles' = <<>>
    /\ spawnRate' = InitialSpawnRate
    /\ obstacleSpeed' = InitialObstacleSpeed

IsRestartInput(ev) ==
    \/ ev.type = "KEYDOWN" /\ ev.sym = "r"
    \/ ev.type = "MOUSEBUTTONDOWN" /\ PointInButton(ev.mouse, restartButtonRect)

IsHomeInput(ev) ==
    \/ ev.type = "KEYDOWN" /\ ev.sym = "h"
    \/ /\ ev.type = "MOUSEBUTTONDOWN"
       /\ ~PointInButton(ev.mouse, restartButtonRect)
       /\ PointInButton(ev.mouse, homeButtonRect)

Quit(ev, d) ==
    /\ ev.type = "QUIT"
    /\ Frame(d, 0)
    /\ isRunning' = FALSE
    /\ UNCHANGED <<currentState, obstacles, blueCar, redCar, startTime, score,
                   spawnRate, obstacleSpeed, presses, sessions, escapes, idle>>

\* variant of StartFromMenu that lands on the death screen
StartFromMenuToDeath(ev, d, lag) ==
    /\ ev.type \in {"KEYDOWN", "MOUSEBUTTONDOWN"}
    /\ currentState = "MAIN_MENU"
    /\ sessions < MaxSessions
    /\ Frame(d, lag)
    /\ currentState' = "DEATH_SCREEN"
    /\ startTime' = now'
    /\ resetCars
    /\ sessions' = sessions + 1
    /\ UNCHANGED <<isRunning, presses, escapes, idle>>

\* MAIN_MENU, any key or mouse button: a session starts
StartFromMenu(ev, d, lag) ==
    /\ ev.type \in {"KEYDOWN", "MOUSEBUTTONDOWN"}
    /\ currentState = "MAIN_MENU"
    /\ sessions < MaxSessions
    /\ Frame(d, lag)
    /\ currentState' = "NORMAL_MODE"
    /\ startTime' = now'
    /\ resetCars
    /\ sessions' = sessions + 1
    /\ UNCHANGED <<isRunning, presses, escapes, idle>>

\* variant of Escape that leaves the difficulty of the session it ends
EscapeKeepsDifficulty(ev, d) ==
    /\ ev.type = "KEYDOWN" /\ ev.sym = "ESCAPE"
    /\ currentState = "NORMAL_MODE"
    /\ escapes < MaxEscapes
    /\ Frame(d, 0)
    /\ currentState' = "MAIN_MENU"
    /\ score' = 0
    /\ obstacles' = <<>>
    /\ escapes' = escapes + 1
    /\ UNCHANGED <<isRunning, blueCar, redCar, startTime, presses, sessions,
                   spawnRate, obstacleSpeed, idle>>

\* NORMAL_MODE, escape: back to the menu (the cars are left where they are)
Escape(ev, d) ==
    /\ ev.type = "KEYDOWN" /\ ev.sym = "ESCAPE"
    /\ currentState = "NORMAL_MODE"
    /\ escapes < MaxEscapes
    /\ Frame(d, 0)
    /\ currentState' = "MAIN_MENU"
    /\ score' = 0
    /\ obstacles' = <<>>
    /\ spawnRate' = InitialSpawnRate
    /\ obstacleSpeed' = InitialObstacleSpeed
    /\ escapes' = escapes + 1
    /\ UNCHANGED <<isRunning, blueCar, redCar, startTime, presses, sessions, idle>>

\* NORMAL_MODE, a: the blue car changes lane.  The handler reads the clock
\* twice: moveStartTime lag ms after main read frameStart, rotationStartTime
\* gap ms after that
ToggleBlue(ev, d, lag, gap) ==
    /\ ev.type = "KEYDOWN" /\ ev.sym = "a"
    /\ currentState = "NORMAL_MODE"
    /\ presses < MaxPresses
    /\ Frame(d, lag + gap)
    /\ blueCar' = ToggleLane(blueCar, LANE_1, LANE_2, frameStart' + lag, now')
    /\ presses' = presses + 1
    /\ UNCHANGED <<isRunning, currentState, obstacles, redCar, startTime, score,
                   spawnRate, obstacleSpeed, sessions, escapes, idle>>

\* variant of ToggleRed that sends the red car across the middle of the road
ToggleRedAcross(ev, d, lag, gap) ==
    /\ ev.type = "KEYDOWN" /\ ev.sym = "d"
    /\ currentState = "NORMAL_MODE"
    /\ presses < MaxPresses
    /\ Frame(d, lag + gap)
    /\ redCar' = ToggleLane(redCar, LANE_4, LANE_2, frameStart' + lag, now')
    /\ presses' = presses + 1
    /\ UNCHANGED <<isRunning, currentState, obstacles, blueCar, startTime, score,
                   spawnRate, obstacleSpeed, sessions, escapes, idle>>

\* NORMAL_MODE, d: the red car changes lane
ToggleRed(ev, d, lag, gap) ==
    /\ ev.type = "KEYDOWN" /\ ev.sym = "d"
    /\ currentState = "NORMAL_MODE"
    /\ presses < MaxPresses
    /\ Frame(d, lag + gap)
    /\ redCar' = ToggleLane(redCar, LANE_4, LANE_3, frameStart' + lag, now')
    /\ presses' = presses + 1
    /\ UNCHANGED <<isRunning, currentState, obstacles, blueCar, startTime, score,
                   spawnRate, obstacleSpeed, sessions, escapes, idle>>

\* DEATH_SCREEN, r or a click on the restart button: a new session
Restart(ev, d, lag) ==
    /\ IsRestartInput(ev)
    /\ currentState = "DEATH_SCREEN"
    /\ sessions < MaxSessions
    /\ Frame(d, lag)
    /\ currentState' = "NORMAL_MODE"
    /\ startTime' = now'
    /\ resetCars
    /\ sessions' = sessions + 1
    /\ UNCHANGED <<isRunning, presses, escapes, idle>>

\* variant of Home that takes every click outside the restart button
HomeOnAnyClick(ev, d, lag) ==
    /\ \/ ev.type = "KEYDOWN" /\ ev.sym = "h"
       \/ /\ ev.type = "MOUSEBUTTONDOWN"
          /\ ~PointInButton(ev.mouse, restartButtonRect)
    /\ currentState = "DEATH_SCREEN"
    /\ Frame(d, IF ev.type = "KEYDOWN" THEN lag ELSE 0)
    /\ currentState' = "MAIN_MENU"
    /\ startTime' = IF ev.type = "KEYDOWN" THEN now' ELSE startTime
    /\ resetCars
    /\ UNCHANGED <<isRunning, presses, sessions, escapes, idle>>

\* DEATH_SCREEN, h or a click on the home button: back to the menu (only the
\* key reads the clock and restarts the session clock)
Home(ev, d, lag) ==
    /\ IsHomeInput(ev)
    /\ currentState = "DEATH_SCREEN"
    /\ Frame(d, IF ev.type = "KEYDOWN" THEN lag ELSE 0)
    /\ currentState' = "MAIN_MENU"
    /\ startTime' = IF ev.type = "KEYDOWN" THEN now' ELSE startTime
    /\ resetCars
    /\ UNCHANGED <<isRunning, presses, sessions, escapes, idle>>

\* every other event in NORMAL_MODE changes nothing
IgnoredInPlay(ev, d) ==
    /\ currentState = "NORMAL_MODE"
    /\ \/ ev.type \in {"NONE", "MOUSEBUTTONDOWN"}
       \/ ev.type = "KEYDOWN" /\ ev.sym \in {"r", "h", "x"}
    /\ Frame(d, 0)
    /\ UNCHANGED <<isRunning, currentState, obstacles, blueCar, redCar, startTime,
                   score, spawnRate, obstacleSpeed, presses, sessions, escapes,
                   idle>>

\* a frame in MAIN_MENU or DEATH_SCREEN whose event changes nothing: only the
\* time of the frame passes
IgnoredOutOfPlay(ev, d) ==
    /\ \/ currentState = "MAIN_MENU" /\ ev.type = "NONE"
       \/ /\ currentState = "DEATH_SCREEN"
          /\ ev.type # "QUIT"
          /\ ~IsRestartInput(ev)
          /\ ~IsHomeInput(ev)
    /\ idle < MaxIdle
    /\ Frame(d, 0)
    /\ idle' = idle + 1
    /\ UNCHANGED <<isRunning, currentState, obstacles, blueCar, redCar, startTime,
                   score, spawnRate, obstacleSpeed, presses, sessions, escapes>>

handleEvents(ev, d, lag, gap) ==
    \/ Quit(ev, d)
    \/ StartFromMenu(ev, d, lag)
    \/ Escape(ev, d)
    \/ ToggleBlue(ev, d, lag, gap)
    \/ ToggleRed(ev, d, lag, gap)
    \/ Restart(ev, d, lag)
    \/ Home(ev, d, lag)
    \/ IgnoredInPlay(ev, d)
    \/ IgnoredOutOfPlay(ev, d)

\* ------------------------------------------------------------------ update
\* the five SDL_GetTicks calls of one Game::update in NORMAL_MODE, in their
\* order: increaseDifficulty, blueCar.updateRotation, blueCar.updateMovement,
\* redCar.updateRotation, redCar.updateMovement.  The clock stalls by
\* stall.lag before call number stall.at.
ReadAt(stall, i) == IF i >= stall.at THEN now + stall.lag ELSE now

Stalls == {[lag |-> l, at |-> i] : l \in ReadLags \ SteadyReads, i \in 1..5}

\* an update during which the clock stands still
Steady == [lag |-> 0, at |-> 1]

\* Game::update in NORMAL_MODE: updateObstacles, checkCollision,
\* increaseDifficulty, spawnObstacle, then both cars
UpdatePlaying(stall) ==
    /\ pc = "update"
    /\ currentState = "NORMAL_MODE"
    /\ patternTimer = 0 => spawns < MaxSpawns
    /\ \E rnd \in IF patternTimer = 0 THEN SpawnInputs ELSE {NoSpawnInput} :
         LET uo == updateObstacles(obstacles, obstacleSpeed, currentState)
             cc == checkCollision(uo.obstacles, redCar, blueCar, score, uo.currentState)
             record == NewHighscore(cc.currentState, cc.score, highscore)
             currentTime == ReadAt(stall, 1)
             due == DifficultyDue(currentTime, startTime, lastIncreaseTime)
             rate == IF due THEN NextSpawnRate(spawnRate) ELSE spawnRate
             sp == spawnObstacle(cc.obstacles, patternTimer, rate, rnd)
         IN /\ currentState' = cc.currentState
            /\ score' = cc.score
            /\ pickups' = cc.score - score
            /\ highscore' = IF record THEN cc.score ELSE highscore
            /\ \E ok \in IF record THEN BOOLEAN ELSE {FALSE} :
                 /\ playerDat' = IF record THEN saveHighscore(playerDat, cc.score, ok)
                                            ELSE playerDat
                 /\ fileOpened' = ok
            /\ saveInvoked' = record
            /\ spawnRate' = rate
            /\ obstacleSpeed' = IF due THEN NextObstacleSpeed(obstacleSpeed) ELSE obstacleSpeed
            /\ lastIncreaseTime' = IF due THEN currentTime ELSE lastIncreaseTime
            /\ obstacles' = sp.obstacles
            /\ patternTimer' = sp.patternTimer
    /\ spawns' = IF patternTimer = 0 THEN spawns + 1 ELSE spawns
    /\ blueCar' = UpdateCar(blueCar, ReadAt(stall, 2), ReadAt(stall, 3))
    /\ redCar' = UpdateCar(redCar, ReadAt(stall, 4), ReadAt(stall, 5))
    /\ now' = ReadAt(stall, 5)
    /\ pc' = IF isRunning THEN "handleEvents" ELSE "clean"
    /\ UNCHANGED <<isRunning, startTime, presses, sessions, escapes, queue,
                   frameStart, loaded, idle, highscoreTxt>>

\* variant of UpdateOutOfPlay in which the obstacles go on falling
UpdateOutOfPlayFalling ==
    /\ pc = "update"
    /\ currentState # "NORMAL_MODE"
    /\ obstacles' = updateObstacles(obstacles, obstacleSpeed, currentState).obstacles
    /\ pc' = IF isRunning THEN "handleEvents" ELSE "clean"
    /\ UNCHANGED <<now, isRunning, currentState, blueCar, redCar,
                   startTime, score, spawnRate, obstacleSpeed, highscore,
                   patternTimer, lastIncreaseTime, playerDat, saveInvoked,
                   fileOpened, pickups, spawns, presses, sessions, escapes,
                   queue, frameStart, loaded, idle, highscoreTxt>>

\* Game::update in MAIN_MENU (the menu text moves) and in DEATH_SCREEN
UpdateOutOfPlay ==
    /\ pc = "update"
    /\ currentState # "NORMAL_MODE"
    /\ pc' = IF isRunning THEN "handleEvents" ELSE "clean"
    /\ UNCHANGED <<now, isRunning, currentState, obstacles, blueCar, redCar,
                   startTime, score, spawnRate, obstacleSpeed, highscore,
                   patternTimer, lastIncreaseTime, playerDat, saveInvoked,
                   fileOpened, pickups, spawns, presses, sessions, escapes,
                   queue, frameStart, loaded, idle, highscoreTxt>>

update == UpdatePlaying(Steady) \/ UpdateOutOfPlay

\* ------------------------------------------------------------------- clean
\* variant of clean that releases the resources without saving the highscore
cleanNoSave ==
    /\ pc = "clean"
    /\ playerDat' = playerDat
    /\ fileOpened' = FALSE
    /\ saveInvoked' = FALSE
    /\ pc' = "exit"
    /\ UNCHANGED <<pickups, now, isRunning, currentState, obstacles, blueCar, redCar,
                   startTime, score, spawnRate, obstacleSpeed, highscore,
                   patternTimer, lastIncreaseTime, spawns, presses, sessions, escapes,
                   queue, frameStart, loaded, idle, highscoreTxt>>

\* Game::clean after the loop: the highscore is written once more
clean ==
    /\ pc = "clean"
    /\ \E ok \in BOOLEAN :
         /\ playerDat' = saveHighscore(playerDat, highscore, ok)
         /\ fileOpened' = ok
    /\ saveInvoked' = TRUE
    /\ pc' = "exit"
    /\ UNCHANGED <<pickups, now, isRunning, currentState, obstacles, blueCar, redCar,
                   startTime, score, spawnRate, obstacleSpeed, highscore,
                   patternTimer, lastIncreaseTime, spawns, presses, sessions, escapes,
                   queue, frameStart, loaded, idle, highscoreTxt>>

\* ------------------------------------------------------------ specification
Next ==
    \/ \E ev \in Polled, d \in StalledFrames, lag \in SteadyReads, gap \in SteadyReads :
          handleEvents(ev, d, lag, gap)
    \/ update
    \/ clean

Spec == Init /\ [][Next]_vars

\* the program on a machine where every asset loads; the frames that change
\* nothing outside a session are left out
InitInstalled == Launch(InitialFiles, {Textures}, LeftoverWords, 0, 0, 0, MaxIdle)

SpecInstalled == InitInstalled /\ [][Next]_vars

\* the program launched without a player.dat, with any of the assets missing:
\* one session, in which no lane key is pressed and which is not left with
\* escape; the same frames are left out
InitAssets ==
    Launch({NoFile}, LoadOutcomes, LeftoverWords,
           MaxSessions - 1, MaxEscapes, MaxPresses, MaxIdle)

SpecAssets == InitAssets /\ [][Next]_vars

\* the program launched without a player.dat on a machine where every asset
\* loads, with MaxIdle frames that change nothing outside a session
InitFresh == Launch({NoFile}, {Textures}, LeftoverWords, 0, 0, 0, 0)

SpecFresh == InitFresh /\ [][Next]_vars

\* -------------------------------------------------- a session without spawns
\* The program back in MAIN_MENU after a first session that was entered on the
\* first frame, ran at frameDelay per frame until its spawn countdown (80 at
\* the first update) was down to DriveHorizon, and was left with escape in
\* the frame after: no lane key was pressed, the pair it spawned is cleared,
\* the countdown is kept.  The next session then runs DriveHorizon updates
\* with an empty road.  entered, left, pressed and idled are the sessions,
\* escapes, lane key presses and idle frames counted as spent.
DriveMenu(entered, left, pressed, idled) ==
    /\ playerDat = NoFile
    /\ highscoreTxt = NoText
    /\ isRunning = TRUE
    /\ currentState = "MAIN_MENU"
    /\ loaded = Textures
    /\ highscore = 0
    /\ pc = "handleEvents"
    /\ frameStart = frameDelay * (InitialSpawnRate + 2 - DriveHorizon)
    /\ now = frameStart
    /\ startTime = frameDelay
    /\ obstacles = <<>>
    /\ blueCar = NewCar(LANE_1)
    /\ redCar = NewCar(LANE_4)
    /\ score = 0
    /\ spawnRate = InitialSpawnRate
    /\ obstacleSpeed = InitialObstacleSpeed
    /\ patternTimer = DriveHorizon
    /\ lastIncreaseTime = 0
    /\ saveInvoked = FALSE
    /\ fileOpened = FALSE
    /\ pickups = 0
    /\ spawns = MaxSpawns
    /\ presses = pressed
    /\ sessions = entered
    /\ escapes = left
    /\ idle = idled

\* that menu when one more session can be entered and none left with escape
DriveStart ==
    DriveMenu(MaxSessions - 1, MaxEscapes, MaxPresses - MaxDrivePresses, MaxIdle - 1)

InitDrive == DriveStart /\ queue = <<>>

\* the frames of that session: it is entered, keys are pressed, nothing ends
\* it; the clock can stall before either SDL_GetTicks call of a key handler
NextDrive ==
    \/ \E ev \in Polled, d \in NominalFrames, lag \in SteadyReads :
          \/ StartFromMenu(ev, d, lag)
          \/ IgnoredInPlay(ev, d)
          \/ IgnoredOutOfPlay(ev, d)
    \/ \E ev \in Polled, d \in NominalFrames, lag \in ReadLags, gap \in ReadLags :
          \/ ToggleBlue(ev, d, lag, gap)
          \/ ToggleRed(ev, d, lag, gap)
    \/ update

SpecDrive == InitDrive /\ [][NextDrive]_vars

\* the same session when the a key is the only key pressed and is pressed only
\* while the blue car is at rest; the clock can stall before either
\* SDL_GetTicks call of the key handler and between two of the calls of an
\* update
NextRoundTrip ==
    \/ \E ev \in Polled, d \in NominalFrames, lag \in SteadyReads :
          \/ StartFromMenu(ev, d, lag)
          \/ IgnoredInPlay(ev, d)
          \/ IgnoredOutOfPlay(ev, d)
    \/ \E ev \in Polled, d \in NominalFrames, lag \in ReadLags, gap \in ReadLags :
          ~blueCar.moving /\ ~blueCar.rotating /\ ToggleBlue(ev, d, lag, gap)
    \/ \E stall \in Stalls \cup {Steady} : UpdatePlaying(stall)
    \/ UpdateOutOfPlay

SpecRoundTrip == InitDrive /\ [][NextRoundTrip]_vars

\* that menu when one more session can be entered and one lane key pressed
InitStall ==
    DriveMenu(MaxSessions - 1, MaxEscapes, MaxPresses - 1, MaxIdle - 1)
        /\ queue = <<>>

\* the session of SpecDrive when the clock can stall before either
\* SDL_GetTicks call of a key handler and between two of the calls of an
\* update
NextStall ==
    \/ \E ev \in Polled, d \in NominalFrames, lag \in SteadyReads :
          \/ StartFromMenu(ev, d, lag)
          \/ IgnoredInPlay(ev, d)
          \/ IgnoredOutOfPlay(ev, d)
    \/ \E ev \in Polled, d \in NominalFrames, lag \in ReadLags, gap \in ReadLags :
          \/ ToggleBlue(ev, d, lag, gap)
          \/ ToggleRed(ev, d, lag, gap)
    \/ \E stall \in Stalls \cup {Steady} : UpdatePlaying(stall)
    \/ UpdateOutOfPlay

SpecStall == InitStall /\ [][NextStall]_vars

\* ------------------------------------------ one session from pair to pair
\* The program when Game::init has returned over an absent player.dat; one
\* session is entered, no lane key is pressed in it and nothing ends it but
\* the game itself.
InitCadence ==
    /\ playerDat = NoFile
    /\ highscoreTxt = NoText
    /\ isRunning = TRUE
    /\ currentState = "MAIN_MENU"
    /\ loaded = Textures
    /\ highscore = 0
    /\ pc = "handleEvents"
    /\ now = 0
    /\ frameStart = 0
    /\ startTime = 0
    /\ obstacles = <<>>
    /\ blueCar = NewCar(LANE_1)
    /\ redCar = NewCar(LANE_4)
    /\ score = 0
    /\ spawnRate = InitialSpawnRate
    /\ obstacleSpeed = InitialObstacleSpeed
    /\ patternTimer = 0
    /\ lastIncreaseTime = 0
    /\ saveInvoked = FALSE
    /\ fileOpened = FALSE
    /\ pickups = 0
    /\ spawns = MaxSpawns - MaxCadenceSpawns
    /\ presses = MaxPresses
    /\ sessions = MaxSessions - 1
    /\ escapes = MaxEscapes
    /\ idle = MaxIdle - 1
    /\ queue = <<>>

NextCadence ==
    \/ \E ev \in Polled, d \in StalledFrames, lag \in SteadyReads :
          \/ StartFromMenu(ev, d, lag)
          \/ IgnoredInPlay(ev, d)
          \/ IgnoredOutOfPlay(ev, d)
    \/ update

SpecCadence == InitCadence /\ [][NextCadence]_vars

\* ------------------------------------------------------ the original release
\* increaseDifficulty of the original release: every 15 s, spawnRate lowered
\* by 20 while it is above 10
DifficultyDueOriginal(t, start, last) ==
    ((t - start) \div 1000) % 15 = 0 /\ t - last >= 1000

NextSpawnRateOriginal(rate) == IF rate > 10 THEN rate - 20 ELSE rate

\* handleEvents of the original release in MAIN_MENU: a key enters the
\* session, nothing is reset
StartFromMenuOriginal(ev, d, lag) ==
    /\ ev.type = "KEYDOWN"
    /\ currentState = "MAIN_MENU"
    /\ sessions < MaxSessions
    /\ Frame(d, lag)
    /\ currentState' = "NORMAL_MODE"
    /\ startTime' = now'
    /\ sessions' = sessions + 1
    /\ UNCHANGED <<isRunning, obstacles, blueCar, redCar, score, spawnRate,
                   obstacleSpeed, presses, escapes, idle>>

\* Game::update of the original release in NORMAL_MODE: the calls of the
\* revised release, with the original increaseDifficulty
UpdatePlayingOriginal(stall) ==
    /\ pc = "update"
    /\ currentState = "NORMAL_MODE"
    /\ patternTimer = 0 => spawns < MaxSpawns
    /\ \E rnd \in IF patternTimer = 0 THEN SpawnInputs ELSE {NoSpawnInput} :
         LET uo == updateObstacles(obstacles, obstacleSpeed, currentState)
             cc == checkCollision(uo.obstacles, redCar, blueCar, score, uo.currentState)
             record == NewHighscore(cc.currentState, cc.score, highscore)
             currentTime == ReadAt(stall, 1)
             due == DifficultyDueOriginal(currentTime, startTime, lastIncreaseTime)
             rate == IF due THEN NextSpawnRateOriginal(spawnRate) ELSE spawnRate
             sp == spawnObstacle(cc.obstacles, patternTimer, rate, rnd)
         IN /\ currentState' = cc.currentState
            /\ score' = cc.score
            /\ pickups' = cc.score - score
            /\ highscore' = IF record THEN cc.score ELSE highscore
            /\ \E ok \in IF record THEN BOOLEAN ELSE {FALSE} :
                 /\ highscoreTxt' = IF record
                                    THEN saveHighscoreOriginal(highscoreTxt, cc.score, ok)
                                    ELSE highscoreTxt
                 /\ fileOpened' = ok
            /\ saveInvoked' = record
            /\ spawnRate' = rate
            /\ obstacleSpeed' = IF due THEN NextObstacleSpeed(obstacleSpeed) ELSE obstacleSpeed
            /\ lastIncreaseTime' = IF due THEN currentTime ELSE lastIncreaseTime
            /\ obstacles' = sp.obstacles
            /\ patternTimer' = sp.patternTimer
    /\ spawns' = IF patternTimer = 0 THEN spawns + 1 ELSE spawns
    /\ blueCar' = UpdateCar(blueCar, ReadAt(stall, 2), ReadAt(stall, 3))
    /\ redCar' = UpdateCar(redCar, ReadAt(stall, 4), ReadAt(stall, 5))
    /\ now' = ReadAt(stall, 5)
    /\ pc' = IF isRunning THEN "handleEvents" ELSE "clean"
    /\ UNCHANGED <<isRunning, startTime, presses, sessions, escapes, queue,
                   frameStart, loaded, idle, playerDat>>

\* Game::clean of the original release after the loop: the highscore is
\* written once more, to highscore.txt
cleanOriginal ==
    /\ pc = "clean"
    /\ \E ok \in BOOLEAN :
         /\ highscoreTxt' = saveHighscoreOriginal(highscoreTxt, highscore, ok)
         /\ fileOpened' = ok
    /\ saveInvoked' = TRUE
    /\ pc' = "exit"
    /\ UNCHANGED <<pickups, now, isRunning, currentState, obstacles, blueCar, redCar,
                   startTime, score, spawnRate, obstacleSpeed, highscore,
                   patternTimer, lastIncreaseTime, spawns, presses, sessions, escapes,
                   queue, frameStart, loaded, idle, playerDat>>

\* highscore.txt before the original release starts: absent, written by an
\* earlier run, empty, or edited by hand (a number between white space)
InitialTexts ==
    {NoText,
     saveHighscoreOriginal(NoText, 1, TRUE),
     [exists |-> TRUE, text |-> <<>>],
     [exists |-> TRUE, text |-> <<" ", "2", "\n">>]}

\* the original release when Game::init has returned: as InitCadence, over
\* one of these files, which loadHighscore has read
InitOriginal ==
    /\ playerDat = NoFile
    /\ highscoreTxt \in InitialTexts
    /\ isRunning = TRUE
    /\ currentState = "MAIN_MENU"
    /\ loaded = Textures
    /\ highscore = loadHighscoreOriginal(highscoreTxt, 0)
    /\ pc = "handleEvents"
    /\ now = 0
    /\ frameStart = 0
    /\ startTime = 0
    /\ obstacles = <<>>
    /\ blueCar = NewCar(LANE_1)
    /\ redCar = NewCar(LANE_4)
    /\ score = 0
    /\ spawnRate = InitialSpawnRate
    /\ obstacleSpeed = InitialObstacleSpeed
    /\ patternTimer = 0
    /\ lastIncreaseTime = 0
    /\ saveInvoked = FALSE
    /\ fileOpened = FALSE
    /\ pickups = 0
    /\ spawns = MaxSpawns - MaxCadenceSpawns
    /\ presses = MaxPresses
    /\ sessions = MaxSessions - 1
    /\ escapes = MaxEscapes
    /\ idle = MaxIdle - 1
    /\ queue = <<>>

\* one session of the original release, no lane key pressed, and the end of
\* the program
NextOriginal ==
    \/ \E ev \in Polled, d \in StalledFrames, lag \in SteadyReads :
          \/ Quit(ev, d)
          \/ StartFromMenuOriginal(ev, d, lag)
          \/ IgnoredInPlay(ev, d)
          \/ IgnoredOutOfPlay(ev, d)
    \/ UpdatePlayingOriginal(Steady)
    \/ UpdateOutOfPlay
    \/ cleanOriginal

SpecOriginal == InitOriginal /\ [][NextOriginal]_vars

\* -------------------------------------------- a session of short and long frames
\* frames that keep the pace and frames that stall for 30 s, in any order
RampFrames == NominalFrames \cup StalledFrames

\* the session of SpecDrive without lane keys
NextRamp ==
    \/ \E ev \in Polled, d \in RampFrames, lag \in SteadyReads :
          \/ StartFromMenu(ev, d, lag)
          \/ IgnoredInPlay(ev, d)
          \/ IgnoredOutOfPlay(ev, d)
    \/ update

SpecRamp == InitDrive /\ [][NextRamp]_vars

\* -------------------------------------- sessions left and entered on the way
\* the same menu when two more sessions can be entered and the first of them
\* can be left with escape, at rest or in the middle of a lane change; every
\* frame outside a session has an input
InitLanes ==
    DriveMenu(MaxSessions - 2, MaxEscapes - 1, MaxPresses - MaxDrivePresses, MaxIdle)
        /\ queue = <<>>

NextLanes ==
    \/ \E ev \in Polled, d \in NominalFrames, lag \in SteadyReads, gap \in SteadyReads :
          \/ StartFromMenu(ev, d, lag)
          \/ Escape(ev, d)
          \/ ToggleBlue(ev, d, lag, gap)
          \/ ToggleRed(ev, d, lag, gap)
          \/ IgnoredInPlay(ev, d)
    \/ update

SpecLanes == InitLanes /\ [][NextLanes]_vars

\* ------------------------------------------------- a session with a backlog
\* events that wait in the queue: the quit signal, key presses and an event
\* the switch ignores
QueuedEvents ==
    {[type |-> "QUIT", sym |-> "x", mouse |-> NoPoint],
     [type |-> "NONE", sym |-> "x", mouse |-> NoPoint]}
    \cup {[type |-> "KEYDOWN", sym |-> k, mouse |-> NoPoint] : k \in {"a", "d", "x"}}

RECURSIVE SeqsUpTo(_, _)
SeqsUpTo(S, n) ==
    IF n = 0 THEN {<<>>}
    ELSE LET shorter == SeqsUpTo(S, n - 1)
         IN shorter \cup {Append(q, e) : q \in shorter, e \in S}

\* the menu of DriveStart with up to MaxQueued events already queued
InitQueue == DriveStart /\ queue \in SeqsUpTo(QueuedEvents, MaxQueued)

\* the frames from there on, up to the end of the process on a quit signal
NextQueue ==
    \/ \E ev \in Polled, d \in NominalFrames, lag \in SteadyReads, gap \in SteadyReads :
          \/ Quit(ev, d)
          \/ StartFromMenu(ev, d, lag)
          \/ ToggleBlue(ev, d, lag, gap)
          \/ ToggleRed(ev, d, lag, gap)
          \/ IgnoredInPlay(ev, d)
          \/ IgnoredOutOfPlay(ev, d)
    \/ update
    \/ clean

SpecQueue == InitQueue /\ [][NextQueue]_vars

\* ------------------------------------------- exits and launches over a store
\* 16-bit halves of the highscore values: small ones, 0x7FFF, 0x8000, 0x5A5A,
\* 0xA5A5, 0xFFFF
SampleHalves == (0 .. MaxSmallHalf) \cup {32767, 32768, 23130, XorKeyHalf, 65535}

\* 32-bit signed highscore values, INT_MIN, -1, 0, 5 and INT_MAX among them
SampleHighscores ==
    {ToSigned16(hi) * 65536 + lo : hi \in SampleHalves, lo \in SampleHalves}

\* The program when its loop has ended on a quit in the main menu, launched
\* over a player.dat that an earlier run wrote for highscore h.
InitCodec ==
    /\ highscore \in SampleHighscores
    /\ playerDat = saveHighscore(NoFile, highscore, TRUE)
    /\ highscoreTxt = NoText
    /\ isRunning = FALSE
    /\ currentState = "MAIN_MENU"
    /\ loaded = Textures
    /\ pc = "clean"
    /\ now = 0
    /\ frameStart = 0
    /\ startTime = 0
    /\ obstacles = <<>>
    /\ blueCar = NewCar(LANE_1)
    /\ redCar = NewCar(LANE_4)
    /\ score = 0
    /\ spawnRate = InitialSpawnRate
    /\ obstacleSpeed = InitialObstacleSpeed
    /\ patternTimer = 0
    /\ lastIncreaseTime = 0
    /\ saveInvoked = FALSE
    /\ fileOpened = FALSE
    /\ pickups = 0
    /\ spawns = 0
    /\ presses = 0
    /\ sessions = 0
    /\ escapes = 0
    /\ idle = 0
    /\ queue = <<>>

\* the next run of the program: Game::init over the player.dat the last run
\* left.  The Game object is new (highscore 0).  loadAssets and loadHighscore
\* are called, and currentState, startTime and the rectangles of the cars
\* assigned, only when SDL and the font subsystem came up.
Relaunch(outcomes, words) ==
    /\ pc = "exit"
    /\ isRunning' \in BOOLEAN
    /\ currentState' \in IF isRunning' THEN {"MAIN_MENU"} ELSE UnassignedStates
    /\ loaded' \in IF isRunning' THEN outcomes ELSE {{}}
    /\ highscore' = IF isRunning' THEN loadHighscore(playerDat, 0) ELSE 0
    /\ pc' = IF isRunning' THEN "handleEvents" ELSE "clean"
    /\ now' = 0
    /\ frameStart' = 0
    /\ startTime' \in IF isRunning' THEN {now'} ELSE words
    /\ obstacles' = <<>>
    /\ blueCar' \in IF isRunning' THEN {NewCar(LANE_1)} ELSE UnassignedCars(words)
    /\ redCar' \in IF isRunning' THEN {NewCar(LANE_4)} ELSE UnassignedCars(words)
    /\ score' = 0
    /\ spawnRate' = InitialSpawnRate
    /\ obstacleSpeed' = InitialObstacleSpeed
    /\ patternTimer' = 0
    /\ lastIncreaseTime' = 0
    /\ saveInvoked' = FALSE
    /\ fileOpened' = FALSE
    /\ pickups' = 0
    /\ spawns' = 0
    /\ presses' = 0
    /\ sessions' = 0
    /\ escapes' = 0
    /\ idle' = 0
    /\ queue' = <<>>
    /\ UNCHANGED <<playerDat, highscoreTxt>>

\* runs that stay in the main menu until the quit signal, one after another;
\* a launch that fails finds one content in all its unassigned words
NextCodec ==
    \/ \E ev \in Polled, d \in NominalFrames : Quit(ev, d)
    \/ UpdateOutOfPlay
    \/ clean
    \/ \E word \in LeftoverWords : Relaunch(LoadOutcomes, {word})

SpecCodec == InitCodec /\ [][NextCodec]_vars

\* ------------------------------------------------- input that is delivered
\* SDL puts an input event on the empty queue while the death screen is up;
\* the SDL_PollEvent call of the next handleEvents takes it
PushEvent(ev) ==
    /\ pc = "handleEvents"
    /\ currentState = "DEATH_SCREEN"
    /\ queue = <<>>
    /\ queue' = <<ev>>
    /\ UNCHANGED <<pc, now, isRunning, currentState, obstacles, blueCar, redCar,
                   startTime, score, spawnRate, obstacleSpeed, highscore,
                   patternTimer, lastIncreaseTime, playerDat, saveInvoked,
                   fileOpened, pickups, spawns, presses, sessions, escapes,
                   frameStart, loaded, idle, highscoreTxt>>

\* the program from its launch, with the events of the death screen delivered
\* through the queue
NextGameOver ==
    \/ \E ev \in Events : PushEvent(ev)
    \/ \E ev \in Polled, d \in StalledFrames, lag \in SteadyReads, gap \in SteadyReads : handleEvents(ev, d, lag, gap)
    \/ update
    \/ clean

SpecGameOver == InitFresh /\ [][NextGameOver]_vars

\* ------------------------------------------------------ the loop keeps going
\* the program launched without a player.dat, with the lane keys left alone
\* and an input in every frame outside a session: sessions are entered, left with escape, ended by a box and restarted, and
\* the window is closed
InitLive == Launch({NoFile}, {Textures}, LeftoverWords, 0, 0, 0, MaxIdle) /\ isRunning

NextLive ==
    \/ \E ev \in Polled, d \in StalledFrames, lag \in SteadyReads :
          \/ Quit(ev, d)
          \/ StartFromMenu(ev, d, lag)
          \/ Escape(ev, d)
          \/ Restart(ev, d, lag)
          \/ Home(ev, d, lag)
          \/ IgnoredInPlay(ev, d)
    \/ update
    \/ clean

\* main runs frame after frame while isRunning holds and calls clean after the
\* loop: a step that can be taken is taken
SpecLive == InitLive /\ [][NextLive]_vars /\ WF_vars(NextLive)

\* ================================================================== claims
\* helpers of the claims: an update step of a session, the death step, and
\* the rectangles written out as the inequalities of the overlap test
UpdateStep == pc = "update" /\ currentState = "NORMAL_MODE"

DeathStep == UpdateStep /\ currentState' = "DEATH_SCREEN"

\* entity o, fallen by this tick's speed, against a car standing at carX
OverlapsCar(o, carX) ==
    /\ o.x < carX + CAR_WIDTH
    /\ carX < o.x + OBSTACLE_SIZE
    /\ o.y + obstacleSpeed < CAR_Y + CAR_HEIGHT
    /\ CAR_Y < o.y + obstacleSpeed + OBSTACLE_SIZE

BoxOnOwnCar ==
    \E i \in 1..Len(obstacles) :
        \/ obstacles[i].texture = "redBox" /\ OverlapsCar(obstacles[i], redCar.x)
        \/ obstacles[i].texture = "blueBox" /\ OverlapsCar(obstacles[i], blueCar.x)

CircleLeavesScreen ==
    \E i \in 1..Len(obstacles) :
        /\ obstacles[i].texture \in {"redCircle", "blueCircle"}
        /\ ~obstacles[i].collected
        /\ obstacles[i].y + obstacleSpeed > SCREEN_HEIGHT

BoxLeavesScreen ==
    \E i \in 1..Len(obstacles) :
        /\ obstacles[i].texture \in {"redBox", "blueBox"}
        /\ obstacles[i].y + obstacleSpeed > SCREEN_HEIGHT

\* the entities at rest (after the tick) that lie on a car of their colour
RestsOnCar(o, carX) ==
    /\ o.x < carX + CAR_WIDTH
    /\ carX < o.x + OBSTACLE_SIZE
    /\ o.y < CAR_Y + CAR_HEIGHT
    /\ CAR_Y < o.y + OBSTACLE_SIZE

BoxRestsOnOwnCar ==
    \E i \in 1..Len(obstacles) :
        \/ obstacles[i].texture = "redBox" /\ RestsOnCar(obstacles[i], redCar.x)
        \/ obstacles[i].texture = "blueBox" /\ RestsOnCar(obstacles[i], blueCar.x)

\* the edges of the state machine
StateEdges ==
    {<<"MAIN_MENU", "NORMAL_MODE">>, <<"NORMAL_MODE", "MAIN_MENU">>,
     <<"NORMAL_MODE", "DEATH_SCREEN">>, <<"DEATH_SCREEN", "NORMAL_MODE">>,
     <<"DEATH_SCREEN", "MAIN_MENU">>}

\* C1: the game starts in MAIN_MENU and currentState changes only along
\* MAIN_MENU -> NORMAL_MODE, NORMAL_MODE -> MAIN_MENU, NORMAL_MODE ->
\* DEATH_SCREEN, DEATH_SCREEN -> NORMAL_MODE and DEATH_SCREEN -> MAIN_MENU;
\* MAIN_MENU never goes to DEATH_SCREEN.
C1_StateMachine ==
    /\ isRunning => currentState = "MAIN_MENU"
    /\ [][currentState' # currentState
            => <<currentState, currentState'>> \in StateEdges]_vars

\* a second session entered without any escape: the run went MAIN_MENU ->
\* NORMAL_MODE -> DEATH_SCREEN and on to NORMAL_MODE again
C1_Witness ==
    /\ currentState = "NORMAL_MODE"
    /\ sessions = 2
    /\ escapes = 0

\* C2: every handleEvents step that enters NORMAL_MODE leaves score = 0, no
\* obstacles, spawnRate = 80, obstacleSpeed = 6, the blue car at LANE_1 and
\* the red car at LANE_4, before that frame's update runs.
C2_SessionReset ==
    [][(pc = "handleEvents" /\ currentState # "NORMAL_MODE"
            /\ currentState' = "NORMAL_MODE")
        => /\ score' = 0
           /\ obstacles' = <<>>
           /\ spawnRate' = 80
           /\ obstacleSpeed' = 6
           /\ blueCar'.x = LANE_1
           /\ redCar'.x = LANE_4
           /\ pc' = "update"]_vars

\* a restart from DEATH_SCREEN, after a session whose difficulty had moved,
\* seen before the update of that frame
C2_Witness ==
    /\ pc = "update"
    /\ currentState = "NORMAL_MODE"
    /\ sessions = 2
    /\ escapes = 0
    /\ startTime = now
    /\ lastIncreaseTime > 0
    /\ score = 0
    /\ obstacles = <<>>

\* C3: an update of a session in which a box, after falling, overlaps the car
\* of its own colour ends in DEATH_SCREEN.
C3_LethalBox ==
    [][(UpdateStep /\ BoxOnOwnCar) => currentState' = "DEATH_SCREEN"]_vars

\* the frozen frame of such a death: a box lies on the car of its colour
C3_Witness ==
    /\ currentState = "DEATH_SCREEN"
    /\ isRunning
    /\ BoxRestsOnOwnCar

\* C4: an update of a session that erases an uncollected circle below the
\* screen ends in DEATH_SCREEN; a box falling off the screen, with no circle
\* missed and no box on its car, leaves the state NORMAL_MODE.
C4_MissedCircle ==
    [][/\ (UpdateStep /\ CircleLeavesScreen) => currentState' = "DEATH_SCREEN"
       /\ (UpdateStep /\ BoxLeavesScreen /\ ~CircleLeavesScreen /\ ~BoxOnOwnCar)
            => currentState' = "NORMAL_MODE"]_vars

\* the uncollected circles that, after falling, overlap the car of their colour
CirclesOnOwnCar ==
    {i \in 1..Len(obstacles) :
        /\ ~obstacles[i].collected
        /\ \/ obstacles[i].texture = "redCircle" /\ OverlapsCar(obstacles[i], redCar.x)
           \/ obstacles[i].texture = "blueCircle" /\ OverlapsCar(obstacles[i], blueCar.x)}

\* the entities the collision pass picks up: uncollected, on a car, with the
\* circle texture of that car and not its box texture (the textures of the
\* images that did not load are one and the same NULL)
PickedUpInTick ==
    {i \in 1..Len(obstacles) :
        /\ ~obstacles[i].collected
        /\ \/ /\ SameTexture(obstacles[i].texture, "redCircle")
              /\ ~SameTexture(obstacles[i].texture, "redBox")
              /\ OverlapsCar(obstacles[i], redCar.x)
           \/ /\ SameTexture(obstacles[i].texture, "blueCircle")
              /\ ~SameTexture(obstacles[i].texture, "blueBox")
              /\ OverlapsCar(obstacles[i], blueCar.x)}

\* C5 as stated: every update that goes from NORMAL_MODE to DEATH_SCREEN leaves
\* the score as it was at the start of the tick.
C5_ScoreKeptAtDeath ==
    [][DeathStep => score' = score]_vars

\* C5: every update that goes from NORMAL_MODE to DEATH_SCREEN raises the
\* score by the number of entities the collision pass picks up in that tick,
\* and leaves it as it was when there is none.
C5_ScoreAtDeath ==
    [][DeathStep => score' = score + Cardinality(PickedUpInTick)]_vars

\* a death in whose tick a circle was picked up
C5_Witness ==
    /\ currentState = "DEATH_SCREEN"
    /\ pc # "update"
    /\ pickups = 1
    /\ score >= 1

\* C6: score is never negative, does not fall from one tick of a session to
\* the next, and a step that lowers it is a reset in handleEvents that sets it
\* to 0.
C6_ScoreMonotone ==
    /\ [](score >= 0)
    /\ [][(currentState = "NORMAL_MODE" /\ currentState' = "NORMAL_MODE")
            => score' >= score]_vars
    /\ [][score' < score
            => /\ score' = 0
               /\ pc = "handleEvents"
               /\ currentState' # currentState]_vars

\* a session still running after both circles of a pair were picked up
C6_Witness ==
    /\ currentState = "NORMAL_MODE"
    /\ score = 2

\* C7: the update that goes from NORMAL_MODE to DEATH_SCREEN leaves highscore
\* at the larger of its old value and the score, and highscore >= score in
\* every state of DEATH_SCREEN.
C7_HighscoreIsMax ==
    /\ [][DeathStep => highscore' = Max(highscore, score')]_vars
    /\ [](currentState = "DEATH_SCREEN" => highscore >= score)

\* a death below the stored record: the old highscore is the larger one
C7_Witness ==
    /\ currentState = "DEATH_SCREEN"
    /\ isRunning
    /\ highscore > score
    /\ ~saveInvoked
    /\ pc = "handleEvents"

\* C8 as stated: on the update that goes from NORMAL_MODE to DEATH_SCREEN
\* saveHighscore is called exactly when the score exceeds the highscore held
\* before, and player.dat then decodes to the new highscore.
C8_SavedIffRecord ==
    [][DeathStep
        => /\ saveInvoked' <=> score' > highscore
           /\ saveInvoked' => /\ playerDat'.exists
                              /\ loadHighscore(playerDat', 0) = highscore']_vars

\* C8: on the update that goes from NORMAL_MODE to DEATH_SCREEN saveHighscore
\* is called exactly when the score exceeds the highscore held before; when
\* player.dat could be opened it then decodes to the new highscore, and when
\* it could not it is left as it was.
C8_SavedIffRecordOpened ==
    [][DeathStep
        => /\ saveInvoked' <=> score' > highscore
           /\ (saveInvoked' /\ fileOpened')
                => /\ playerDat'.exists
                   /\ loadHighscore(playerDat', 0) = highscore'
                   /\ highscore' = score'
           /\ (saveInvoked' /\ ~fileOpened') => playerDat' = playerDat]_vars

\* a death with a new record that was written to player.dat
C8_Witness ==
    /\ currentState = "DEATH_SCREEN"
    /\ pc = "handleEvents"
    /\ saveInvoked
    /\ fileOpened
    /\ score = 1
    /\ highscore = 1
    /\ loadHighscore(playerDat, 0) = 1

\* C9: from one step of a session to the next spawnRate does not rise and
\* obstacleSpeed does not fall, the update that ends the session included.
C9_DifficultyMonotone ==
    [][(currentState = "NORMAL_MODE" /\ (currentState' = "NORMAL_MODE" \/ pc = "update"))
        => /\ spawnRate' <= spawnRate
           /\ obstacleSpeed' >= obstacleSpeed]_vars

\* a session whose spawn rate has reached its floor and whose speed has
\* stopped rising
C9_Witness ==
    /\ currentState = "NORMAL_MODE"
    /\ spawnRate = 20
    /\ obstacleSpeed > 14
    /\ lastIncreaseTime < now

\* C10: obstacleSpeed is at most 15 in every state.
C10_SpeedCeiling == obstacleSpeed <= 15

\* C11: spawnRate is positive and at least 20 in every state.
C11_SpawnRateFloor == spawnRate > 0 /\ spawnRate >= 20

\* a session that went on adjusting after the floor was reached
C11_Witness ==
    /\ currentState = "NORMAL_MODE"
    /\ pc = "handleEvents"
    /\ spawnRate = 20
    /\ obstacleSpeed = 16
    /\ lastIncreaseTime = now

\* helpers of the spawn claims: the update that produces a pair, and the two
\* entities it appended
SpawnStep == UpdateStep /\ patternTimer = 0

FirstSpawned == obstacles'[Len(obstacles') - 1]

SecondSpawned == obstacles'[Len(obstacles')]

\* the entities of the list that this update erases
ErasedNow ==
    {i \in 1..Len(obstacles) :
        \/ obstacles[i].y + obstacleSpeed > SCREEN_HEIGHT
        \/ i \in CirclesOnOwnCar}

\* C12: a producing call never appends two boxes of one colour, nor two
\* circles of one colour.
C12_OneKindPerColour ==
    [][SpawnStep
        => ~(FirstSpawned.texture = SecondSpawned.texture
                /\ FirstSpawned.texture \in Textures)]_vars

\* C13 as stated: a producing call appends exactly two entities, one in
\* LANE_3 or LANE_4 and one in LANE_1 or LANE_2.
C13_OnePerSide ==
    [][SpawnStep
        => /\ Len(obstacles') = Len(obstacles) - Cardinality(ErasedNow) + 2
           /\ \/ FirstSpawned.x \in {LANE_3, LANE_4} /\ SecondSpawned.x \in {LANE_1, LANE_2}
              \/ FirstSpawned.x \in {LANE_1, LANE_2} /\ SecondSpawned.x \in {LANE_3, LANE_4}]_vars

\* C13: a producing call appends exactly two entities, in two different lanes
\* among LANE_1 .. LANE_4; they can lie on the same side.
C13_TwoLanes ==
    [][SpawnStep
        => /\ Len(obstacles') = Len(obstacles) - Cardinality(ErasedNow) + 2
           /\ FirstSpawned.x \in {LANE_1, LANE_2, LANE_3, LANE_4}
           /\ SecondSpawned.x \in {LANE_1, LANE_2, LANE_3, LANE_4}
           /\ FirstSpawned.x # SecondSpawned.x]_vars

\* a pair just produced with both entities on the red side
C13_Witness ==
    /\ Len(obstacles) = 2
    /\ spawns = 1
    /\ obstacles[1].y = -OBSTACLE_SIZE
    /\ obstacles[1].x \in {LANE_3, LANE_4}
    /\ obstacles[2].x \in {LANE_3, LANE_4}
    /\ obstacles[1].x # obstacles[2].x

\* C14: an entity appended to a non-empty list starts at least CAR_HEIGHT + 10
\* above the entity that was last in the list.
C14_SpawnGap ==
    [][SpawnStep => SecondSpawned.y <= FirstSpawned.y - (CAR_HEIGHT + 10)]_vars

\* helpers of the lane claims: the handleEvents step of an a / d key press, and
\* the lane a car is in or heading to
BluePress == pc = "handleEvents" /\ presses' = presses + 1 /\ blueCar' # blueCar

RedPress == pc = "handleEvents" /\ presses' = presses + 1 /\ redCar' # redCar

LaneOf(car) == IF car.moving THEN car.targetX ELSE car.x

\* C15: a press of a (d) leaves the blue (red) car moving and rotating from
\* a clock reading of this frame on, with as target the one of its two lanes
\* that is not the lane it was in or heading to, at rest and in the middle of
\* a lane change.
C15_ToggleTarget ==
    [][/\ BluePress
            => /\ blueCar'.moving /\ blueCar'.moveStartTime \in frameStart' .. now'
               /\ blueCar'.rotating /\ blueCar'.rotationStartTime = now'
               /\ blueCar'.targetX \in {LANE_1, LANE_2} \ {LaneOf(blueCar)}
       /\ RedPress
            => /\ redCar'.moving /\ redCar'.moveStartTime \in frameStart' .. now'
               /\ redCar'.rotating /\ redCar'.rotationStartTime = now'
               /\ redCar'.targetX \in {LANE_3, LANE_4} \ {LaneOf(redCar)}]_vars

\* C16: in a session that starts with the blue car at rest in LANE_1 and in
\* which a is pressed only after the previous lane change has ended, the car at
\* rest is in LANE_2 after one press and in LANE_1 again after two.
C16_RoundTrip ==
    (currentState = "NORMAL_MODE" /\ ~blueCar.moving)
        => blueCar.x = IF (presses - (MaxPresses - MaxDrivePresses)) % 2 = 0
                       THEN LANE_1 ELSE LANE_2

\* the blue car back at rest after the second press
C16_Witness ==
    /\ currentState = "NORMAL_MODE"
    /\ presses - (MaxPresses - MaxDrivePresses) = 2
    /\ ~blueCar.moving
    /\ ~blueCar.rotating
    /\ blueCar.x = LANE_1
    /\ blueCar.angle = 0

\* what an update makes of a car that is changing lane; first and last are
\* the clock at the first and at the last SDL_GetTicks call of the update
ArrivesOrMoves(car, after, first, last) ==
    LET Arrived == /\ after.x = car.targetX
                   /\ after.angle = 0
                   /\ ~after.moving
                   /\ ~after.rotating
        Changing == after.moving /\ after.rotating
    IN car.moving
        => IF first - car.moveStartTime >= moveDuration THEN Arrived
           ELSE IF last - car.moveStartTime < moveDuration THEN Changing
           ELSE Arrived \/ Changing

\* C17: the update of a car that is changing lane leaves it, from 200 ms after
\* the press on, on targetX with angle 0 and both flags clear, and before that
\* with both flags set; a handleEvents step without a press leaves the flags
\* as they are.
C17_LaneChangeEnds ==
    [][/\ UpdateStep => /\ ArrivesOrMoves(blueCar, blueCar', now, now')
                         /\ ArrivesOrMoves(redCar, redCar', now, now')
       /\ (pc = "handleEvents" /\ currentState' = "NORMAL_MODE" /\ presses' = presses)
            => /\ blueCar'.moving = blueCar.moving /\ blueCar'.rotating = blueCar.rotating
               /\ redCar'.moving = redCar.moving /\ redCar'.rotating = redCar.rotating]_vars

\* a handleEvents step that receives the quit signal
QuitStep == pc = "handleEvents" /\ isRunning /\ ~isRunning'

\* the original statement of C18: after a run that played at least one session
\* the process has exited with player.dat holding the in-memory highscore
C18_QuitStoresHighscore ==
    (pc = "exit" /\ sessions > 0) =>
        (playerDat.exists /\ loadHighscore(playerDat, 0) = highscore)

\* C18: the quit signal is accepted in every state and only clears isRunning;
\* the update of that tick still runs, after it the loop ends and clean runs
\* instead of another handleEvents; clean always invokes saveHighscore and
\* exits, with player.dat holding the in-memory highscore when the file could
\* be opened for writing and with player.dat untouched when it could not.
C18_QuitEndsLoopAndSaves ==
    [][ /\ QuitStep => (pc' = "update" /\ currentState' = currentState)
        /\ (pc = "update" /\ ~isRunning) => pc' = "clean"
        /\ (pc = "update" /\ isRunning) => pc' = "handleEvents"
        /\ pc = "clean" =>
              /\ pc' = "exit"
              /\ saveInvoked'
              /\ highscore' = highscore
              /\ IF fileOpened'
                    THEN playerDat'.exists /\ loadHighscore(playerDat', 0) = highscore
                    ELSE playerDat' = playerDat ]_vars

\* the process has exited after a quit on the death screen of a session that
\* set a record, and player.dat decodes to that record
C18_Witness ==
    /\ pc = "exit"
    /\ ~isRunning
    /\ currentState = "DEATH_SCREEN"
    /\ sessions > 0
    /\ score = 1
    /\ highscore = 1
    /\ saveInvoked
    /\ fileOpened
    /\ playerDat.exists
    /\ loadHighscore(playerDat, 0) = 1

\* the handler that the head of the queue selects in the current state
HeadIs(type, sym) ==
    /\ queue # <<>>
    /\ Head(queue).type = type
    /\ Head(queue).sym = sym

\* C19: a handleEvents step takes exactly the oldest event out of a non-empty
\* queue and nothing else, applies that event (quit clears isRunning and
\* nothing else does, a key in the menu starts the session, a and d in play
\* toggle the blue and the red car, other events toggle neither) and hands
\* over to update; update and clean leave the queue alone.  So k queued
\* events are taken in their order, one per tick, each before the update of
\* its tick.
C19_OneEventPerTick ==
    [][ /\ pc = "handleEvents" =>
              /\ pc' = "update"
              /\ queue' = IF queue = <<>> THEN <<>> ELSE Tail(queue)
              /\ queue # <<>> =>
                    /\ Len(queue') = Len(queue) - 1
                    /\ ~isRunning' <=> HeadIs("QUIT", "x")
                    /\ (currentState = "MAIN_MENU" /\ currentState' = "NORMAL_MODE")
                          <=> (currentState = "MAIN_MENU" /\ Head(queue).type = "KEYDOWN")
                    /\ BluePress <=> (currentState = "NORMAL_MODE" /\ HeadIs("KEYDOWN", "a"))
                    /\ RedPress <=> (currentState = "NORMAL_MODE" /\ HeadIs("KEYDOWN", "d"))
        /\ pc # "handleEvents" => queue' = queue
      ]_vars

\* two ticks after the start with three queued events: the key that started
\* the session and the a that followed it are applied, the third event still
\* waits while the second tick's update is about to run
C19_Witness ==
    /\ pc = "update"
    /\ Len(queue) = 1
    /\ currentState = "NORMAL_MODE"
    /\ startTime = now - frameDelay
    /\ blueCar.moving
    /\ blueCar.moveStartTime = now
    /\ ~redCar.moving

\* C20: a saveHighscore that could open player.dat leaves one record, the
\* highscore XOR 0xA5A5A5A5 as a 32-bit int (0 -> 0xA5A5A5A5, 5 -> 0xA5A5A5A0,
\* -1 -> 0x5A5A5A5A, INT_MAX -> 0xDA5A5A5A, INT_MIN -> 0x25A5A5A5), and the
\* loadHighscore of the next launch yields the highscore that was saved.
C20_SaveLoadRoundTrip ==
    [][ /\ (pc = "clean" /\ fileOpened') =>
              /\ playerDat'.exists
              /\ playerDat'.data \in -2147483647 - 1 .. 2147483647
              /\ playerDat'.data # highscore
              /\ highscore = 0 => playerDat'.data = -1515870811
              /\ highscore = 5 => playerDat'.data = -1515870816
              /\ highscore = -1 => playerDat'.data = 1515870810
              /\ highscore = 2147483647 => playerDat'.data = -631612838
              /\ highscore = -2147483647 - 1 => playerDat'.data = 631612837
        /\ (pc = "exit" /\ fileOpened /\ isRunning') => highscore' = highscore
      ]_vars

\* a launch has loaded INT_MIN back from the record the last run's clean wrote
C20_Witness ==
    /\ pc = "handleEvents"
    /\ isRunning
    /\ highscore = -2147483647 - 1
    /\ playerDat.exists
    /\ playerDat.data = 631612837

\* C21: a run that started over an absent player.dat and has not begun a
\* session yet is looping in MAIN_MENU with highscore 0: loadHighscore left
\* the field at its initial value and did not stop the program.
C21_AbsentFileStartsAtZero ==
    (~playerDat.exists /\ sessions = 0 /\ pc \in {"handleEvents", "update"})
        => (highscore = 0 /\ currentState = "MAIN_MENU")

\* the first tick of such a run is about to update, still running
C21_Witness ==
    /\ ~playerDat.exists
    /\ sessions = 0
    /\ pc = "update"
    /\ isRunning
    /\ currentState = "MAIN_MENU"
    /\ highscore = 0

\* C22: whenever the state is MAIN_MENU (at start-up, after escape from
\* NORMAL_MODE, after home from DEATH_SCREEN) the score is 0, the obstacle list
\* is empty, spawnRate is 80 and obstacleSpeed is 6.
C22_MenuIsReset ==
    currentState = "MAIN_MENU"
        => /\ score = 0
           /\ obstacles = <<>>
           /\ spawnRate = InitialSpawnRate
           /\ obstacleSpeed = InitialObstacleSpeed

\* the menu at a tick boundary after home from the death screen of a session
\* that had raised the difficulty
C22_Witness ==
    /\ currentState = "MAIN_MENU"
    /\ pc = "handleEvents"
    /\ sessions = 1
    /\ escapes = 0
    /\ lastIncreaseTime > 0
    /\ score = 0
    /\ obstacleSpeed = InitialObstacleSpeed

\* C23: an update call made in DEATH_SCREEN changes nothing: the state, score,
\* highscore, obstacles, spawnRate, obstacleSpeed, the spawn countdown, the
\* difficulty clock, player.dat and both cars are what they were before it.
C23_DeathScreenFrozen ==
    [][(pc = "update" /\ currentState = "DEATH_SCREEN")
          => UNCHANGED <<currentState, score, highscore, obstacles, spawnRate,
                         obstacleSpeed, patternTimer, lastIncreaseTime,
                         playerDat, blueCar, redCar>>]_vars

\* the tick after the one of a first-session death that set a record over an
\* absent player.dat: its update has run (saveInvoked, set in the death tick,
\* was cleared by this tick's handleEvents and is still clear), the entity
\* that ended the session is still in the list
C23_Witness ==
    /\ pc = "handleEvents"
    /\ currentState = "DEATH_SCREEN"
    /\ sessions = 1
    /\ ~playerDat.exists
    /\ score = 1
    /\ highscore = 1
    /\ ~saveInvoked
    /\ obstacles # <<>>

\* C24: a car whose moving flag is clear stands on one of its two lane
\* columns, the blue car on LANE_1 or LANE_2 and the red car on LANE_3 or
\* LANE_4; a column in between is held only while moving is set.
C24_AtRestInLane ==
    /\ ~blueCar.moving => blueCar.x \in {LANE_1, LANE_2}
    /\ ~redCar.moving => redCar.x \in {LANE_3, LANE_4}

\* the red car at rest in LANE_3 in a session that is younger than a lane
\* change: the escape from the session before caught it between its lanes and
\* resetCars put it back on LANE_4 with the change still under way.  The blue
\* car is between its lanes.
C24_Witness ==
    /\ currentState = "NORMAL_MODE"
    /\ sessions = MaxSessions
    /\ escapes = MaxEscapes
    /\ now - startTime < moveDuration
    /\ ~redCar.moving
    /\ redCar.x = LANE_3
    /\ blueCar.moving
    /\ blueCar.x \notin {LANE_1, LANE_2}

\* the entities that are still listed after the tick: fallen by this tick's
\* speed, not past the bottom edge and not picked up
KeptAfterTick ==
    LET Kept(i) == /\ i \notin CirclesOnOwnCar
                   /\ obstacles[i].y + obstacleSpeed <= SCREEN_HEIGHT
        Fallen(i) == [obstacles[i] EXCEPT !.y = @ + obstacleSpeed]
        Collect[i \in 0..Len(obstacles)] ==
            IF i = 0 THEN <<>>
            ELSE IF Kept(i) THEN Append(Collect[i - 1], Fallen(i))
            ELSE Collect[i - 1]
    IN Collect[Len(obstacles)]

\* C25: an update of a session raises the score by one for each uncollected
\* circle that lies on the car of its colour, those circles are gone from the
\* list when it returns (the list starts with the other entities, in order,
\* and goes on with the spawned pair), and no listed entity is ever marked
\* collected.
C25_CircleCollectedOnce ==
    [][UpdateStep =>
          /\ score' = score + Cardinality(CirclesOnOwnCar)
          /\ Len(obstacles') >= Len(KeptAfterTick)
          /\ SubSeq(obstacles', 1, Len(KeptAfterTick)) = KeptAfterTick
          /\ \A i \in 1..Len(obstacles') : ~obstacles'[i].collected
          /\ \A i \in 1..Len(obstacles) : ~obstacles[i].collected]_vars

\* C26: a spawnObstacle call made with the countdown at 0 appends two entities
\* and sets the countdown to the spawnRate of that moment; a call made with a
\* positive countdown lowers it by 1 and appends nothing; nothing else writes
\* the countdown.  In a session entered right after the launch the first call
\* produces with spawnRate 60 and the second pair is produced by call 62, while
\* spawnRate has gone down to 20 in between.
C26_SpawnCadence ==
    [][ /\ (UpdateStep /\ patternTimer = 0)
              => /\ patternTimer' = spawnRate'
                 /\ Len(obstacles') = Len(KeptAfterTick) + 2
        /\ (UpdateStep /\ patternTimer > 0)
              => /\ patternTimer' = patternTimer - 1
                 /\ obstacles' = KeptAfterTick
        /\ ~UpdateStep => patternTimer' = patternTimer
        /\ (UpdateStep /\ patternTimer = 0 /\ spawns = MaxSpawns - MaxCadenceSpawns + 1)
              => /\ spawnRate' = 20
                 /\ \E d \in StalledFrames :
                      now - startTime = d * (NextSpawnRate(InitialSpawnRate) + 1)
      ]_vars

\* the second pair has just been appended, 61 updates after the first
C26_Witness ==
    /\ currentState = "NORMAL_MODE"
    /\ pc = "handleEvents"
    /\ spawns = MaxSpawns - MaxCadenceSpawns + 2
    /\ patternTimer = 20
    /\ Len(obstacles) = 2
    /\ obstacles[1].y < 0
    /\ \E d \in StalledFrames : now - startTime = d * 61

\* elapsed seconds of the session at clock value t
ElapsedSeconds(t) == (t - startTime) \div 1000

\* C27: lastIncreaseTime is written only by an update of a session, with the
\* clock value of that update and 1000 ms or more after its old value; every
\* change of spawnRate or obstacleSpeed in an update is such an adjustment; and
\* an update made while elapsed seconds still has the value it had at the
\* last adjustment of this session adjusts nothing.
C27_AdjustmentsSpaced ==
    [][ /\ lastIncreaseTime' # lastIncreaseTime
              => /\ UpdateStep
                 /\ lastIncreaseTime' = now
                 /\ now - lastIncreaseTime >= 1000
        /\ (UpdateStep /\ (spawnRate' # spawnRate \/ obstacleSpeed' # obstacleSpeed))
              => lastIncreaseTime' = now /\ lastIncreaseTime' # lastIncreaseTime
        /\ (UpdateStep /\ lastIncreaseTime >= startTime
               /\ ElapsedSeconds(now) = ElapsedSeconds(lastIncreaseTime))
              => UNCHANGED <<spawnRate, obstacleSpeed, lastIncreaseTime>>
      ]_vars

\* a session that was adjusted twice, the second time when its elapsed seconds
\* came to 30, has gone through a later update inside that second
C27_Witness ==
    /\ currentState = "NORMAL_MODE"
    /\ pc = "handleEvents"
    /\ spawnRate = InitialSpawnRate - 40
    /\ ElapsedSeconds(lastIncreaseTime) = 30
    /\ ElapsedSeconds(now) = 30
    /\ now > lastIncreaseTime

\* C28: in the original release spawnRate is always positive and never below
\* its floor of 10.
C28_OriginalSpawnRateFloor == spawnRate > 0 /\ spawnRate >= 10

\* C29: a handleEvents step in DEATH_SCREEN whose event is not the restart
\* key, the home key or a click inside a button (edges included) leaves the
\* state, score, obstacles, difficulty and cars unchanged; the restart key and
\* a click inside the restart button lead to NORMAL_MODE, the home key and a
\* click inside the home button to MAIN_MENU.
C29_GameOverInputs ==
    [][(pc = "handleEvents" /\ currentState = "DEATH_SCREEN" /\ queue # <<>>
            /\ pc' = "update")
        => /\ (~IsRestartInput(Head(queue)) /\ ~IsHomeInput(Head(queue)))
                => UNCHANGED <<currentState, score, obstacles, spawnRate,
                               obstacleSpeed, blueCar, redCar>>
           /\ IsRestartInput(Head(queue)) => currentState' = "NORMAL_MODE"
           /\ IsHomeInput(Head(queue)) => currentState' = "MAIN_MENU"]_vars

\* the death screen still up, with its obstacles, after handleEvents took an
\* event that was delivered to it
C29_Witness ==
    /\ pc = "update"
    /\ currentState = "DEATH_SCREEN"
    /\ isRunning
    /\ queue = <<>>
    /\ obstacles # <<>>
    /\ sessions = 1

\* C30: every entity of the list has one of the four kinds as its texture; the
\* red kinds are in LANE_3 or LANE_4 and the blue kinds in LANE_1 or LANE_2.
C30_SpawnedKinds ==
    \A i \in 1..Len(obstacles) :
        /\ obstacles[i].texture \in Textures
        /\ obstacles[i].texture \in {"redBox", "redCircle"}
              => obstacles[i].x \in {LANE_3, LANE_4}
        /\ obstacles[i].texture \in {"blueBox", "blueCircle"}
              => obstacles[i].x \in {LANE_1, LANE_2}

\* C31: at the end of the first tick of a session (the clock still reads
\* startTime, so the one event of that frame was the one that entered the
\* session and no lane key has been read since) the blue car is at LANE_1 and
\* the red car at LANE_4, where resetCars put them.
C31_RestAfterReset ==
    (pc = "handleEvents" /\ currentState = "NORMAL_MODE" /\ now = startTime)
        => blueCar.x = LANE_1 /\ redCar.x = LANE_4

\* an entity standing in lane column lx at the height of the cars
EntityBesideCars(lx) == EntityRect(NewEntity("redBox", lx, CAR_Y))

\* C32: the blue car's x is always within LANE_1 .. LANE_2 and the red car's
\* within LANE_3 .. LANE_4, so the blue car's rectangle meets no entity of
\* LANE_3 or LANE_4 and the red car's none of LANE_1 or LANE_2.
C32_CarsKeepTheirSide ==
    /\ blueCar.x \in LANE_1 .. LANE_2
    /\ redCar.x \in LANE_3 .. LANE_4
    /\ \A lx \in {LANE_3, LANE_4} :
          ~SDL_HasIntersection(CarRect(blueCar), EntityBesideCars(lx))
    /\ \A lx \in {LANE_1, LANE_2} :
          ~SDL_HasIntersection(CarRect(redCar), EntityBesideCars(lx))

\* both cars between their lanes in a session entered after an escape that
\* interrupted a lane change
C32_Witness ==
    /\ currentState = "NORMAL_MODE"
    /\ sessions = MaxSessions
    /\ escapes = MaxEscapes
    /\ blueCar.moving /\ blueCar.x \notin {LANE_1, LANE_2}
    /\ redCar.moving /\ redCar.x \notin {LANE_3, LANE_4}

\* C33: at the end of every tick of the first 30 s of a session spawnRate is
\* 80 and obstacleSpeed is 6.
C33_NoEarlyAdjustment ==
    (pc = "handleEvents" /\ currentState = "NORMAL_MODE"
        /\ now - startTime < 30000)
        => spawnRate = InitialSpawnRate /\ obstacleSpeed = InitialObstacleSpeed

\* the highscore a launch would read from player.dat (0 when there is no file)
StoredHighscore(file) == loadHighscore(file, 0)

\* C34: no step of a run lowers the highscore held in the store, so that the
\* stored value at the exit of the process is at least the one at its start.
C34_StoreNeverDecreases ==
    [][StoredHighscore(playerDat') >= StoredHighscore(playerDat)]_vars

\* C35: every step of handleEvents that enters NORMAL_MODE finds the spawn
\* countdown at the value it had at the start of the first session, 0, so that
\* the first update of every session produces the first pair.
C35_CountdownAtSessionStart ==
    [][(pc = "handleEvents" /\ currentState # "NORMAL_MODE"
            /\ currentState' = "NORMAL_MODE")
        => patternTimer' = 0]_vars

\* C36: once the score of a session is 1 and above the highscore, the
\* highscore becomes at least 1 later on, however the session ends.
C36_ScoreReachesHighscore ==
    (currentState = "NORMAL_MODE" /\ score = 1 /\ score > highscore)
        ~> (highscore >= 1)
====
